---- MODULE Spec2Model ----
(***************************************************************************)
(* A model of the crawl engine of src/scrap_st.py                          *)
(* (VanguardComplianceScraper): URL normalisation, the scope filter, the   *)
(* page fetcher and the breadth-first crawl loop; of the relevance         *)
(* classifiers and keyword lists of scrap_st.py and scraper.py; of the     *)
(* collection and deduplication of records in scraper.py and script.py;    *)
(* and of the rate limiting in front of every GET.                         *)
(*                                                                         *)
(* Strings.  A Python str is modelled as a sequence of tokens; the text of *)
(* the string is the concatenation of the texts of its tokens.  The tokens *)
(* are chosen so that every test the code makes on a string (startswith,   *)
(* endswith, substring, split, equality) is decided by the tokens: no      *)
(* pattern the code looks for straddles two tokens other than as written   *)
(* in the operators below.                                                 *)
(***************************************************************************)
EXTENDS Integers, Sequences, FiniteSets, TLC

VARIABLES
    \* ---- VanguardComplianceScraper object (scrap_st.py:69-77)
    visited_urls,       \* self.visited_urls : set of URLs
    compliance_urls,    \* self.compliance_urls : list of page_data
    \* ---- locals of crawl() (scrap_st.py:211-258)
    pc,                 \* position of the crawl call
    start_urls,         \* parameter start_urls
    max_pages,          \* parameter max_pages
    queue,              \* deque of URLs
    pages_crawled,      \* the page counter
    url,                \* the URL popped in the current iteration
    page_data,          \* result of scrape_page(url): <<record>>, or None
    \* ---- history (not program state): what the run has done so far
    calls,              \* number of crawl() calls made on the object
    fetched,            \* URLs whose GET was issued, in order, whole lifetime
    outcomes,           \* outcomes[i]: scrape_page(fetched[i]) returned a page
    run_mark,           \* Len(fetched) when the current crawl() call began
    edges,              \* <<u, v>>: v was in outbound_links of page u, this call
    \* ---- the pure-function harness (normalize_url / should_crawl)
    npc,                \* position of the harness
    raw,                \* the raw href under test
    norm1,              \* normalize_url(raw)
    norm2,              \* normalize_url(normalize_url(raw))
    verdict1,           \* should_crawl(norm1)
    verdict2,           \* should_crawl(norm2)
    \* ---- the classifier harness (is_compliance_related / keyword lists)
    cpc,                \* position of the harness
    text,               \* the page text under test, a sequence of words
    page_url,           \* the URL of the page under test
    relevant,           \* VanguardComplianceScraper.is_compliance_related(text, url)
    found_keywords,     \* found_keywords of scrape_page (lines 185-188)
    base_relevant,      \* BaseScraper.is_compliance_related(text)
    violations,         \* BaseScraper.extract_violations(text)
    \* ---- collection and export (scraper.py main, script.py scrape_* methods)
    dpc,                \* position of the collecting program
    produced,           \* what the listing pages hold, in the order it is read
    dk,                 \* how many entries of the list at hand have been handled
    all_actions,        \* main: all_actions
    seen_ids,           \* main: seen_ids
    unique_actions,     \* main: unique_actions
    max_items,          \* script.py: the max_items parameter
    enforcement_data,   \* script.py: the list being built
    saved,              \* script.py: the list handed to _save_data, or None
    \* ---- rate limiting (RateLimiter of scraper.py; time.sleep of the others)
    rpc,                \* position of the scraper in its fetch operation
    gate,               \* how the instance gates a GET: "RateLimiter" or "sleep"
    now,                \* the clock, in ticks
    min_interval,       \* RateLimiter.min_interval, or rate_limit_delay, in ticks
    last_request_time,  \* RateLimiter.last_request_time
    wake_at,            \* the time the running time.sleep() is over
    call_time,          \* history: when the gate was entered
    call_elapsed,       \* history: elapsed, as wait() computed it on entry
    prev_return,        \* history: when the gate before the last one returned
    last_return,        \* history: when the last gate returned
    prev_get,           \* history: when the GET before the last one was issued
    last_get,           \* history: when the last GET was issued
    \* ---- save_results (scrap_st.py:260-288)
    saved_pages,        \* the 'pages' list of the JSON file, or None before a save
    saved_urls,         \* the lines of the URL list file, or None before a save
    \* ---- one extractor pass (scraper.py:149-454; script.py:195-237)
    xpc,                \* position of the extractor in its pass
    extractor,          \* the generator method that is running
    pass_limit,         \* parameter max_pages, or months_back
    filter_compliance,  \* parameter filter_compliance of scrape_press_releases
    current_date,       \* datetime.now() as read at line 396
    listing_page,       \* the loop index: `page`, or `i`
    releases,           \* the links of the listing page still to be handled
    requested,          \* history: the fetches issued by the pass, in order
    yielded,            \* history: the records the pass has yielded, in order
    sentinels           \* history: release_number values given for want of a match

crawlVars == <<visited_urls, compliance_urls, pc, start_urls, max_pages, queue,
               pages_crawled, url, page_data, calls, fetched, outcomes, run_mark, edges>>
normVars  == <<npc, raw, norm1, norm2, verdict1, verdict2>>
classVars == <<cpc, text, page_url, relevant, found_keywords, base_relevant, violations>>
dedupVars == <<dpc, produced, dk, all_actions, seen_ids, unique_actions,
               max_items, enforcement_data, saved>>
rateVars  == <<rpc, gate, now, min_interval, last_request_time, wake_at, call_time,
               call_elapsed, prev_return, last_return, prev_get, last_get>>
passVars  == <<xpc, extractor, pass_limit, filter_compliance, current_date,
               listing_page, releases, requested, yielded, sentinels>>
saveVars  == <<saved_pages, saved_urls>>
vars      == <<crawlVars, normVars, classVars, dedupVars, rateVars, passVars, saveVars>>

\* What a step of one part of the model leaves alone: the other parts.
exceptCrawl == <<normVars, classVars, dedupVars, rateVars, passVars, saveVars>>
exceptNorm  == <<crawlVars, classVars, dedupVars, rateVars, passVars, saveVars>>
exceptClass == <<crawlVars, normVars, dedupVars, rateVars, passVars, saveVars>>
exceptDedup == <<crawlVars, normVars, classVars, rateVars, passVars, saveVars>>
exceptRate  == <<crawlVars, normVars, classVars, dedupVars, passVars, saveVars>>
exceptPass  == <<crawlVars, normVars, classVars, dedupVars, rateVars, saveVars>>
exceptSave  == <<crawlVars, normVars, classVars, dedupVars, rateVars, passVars>>

\* Python's None; a value that may be None is <<>> or the one-element <<value>>.
None == <<>>

\* ---------------------------------------------------------------- bounds
MaxPagesArg == 3    \* crawl() is called with max_pages in 0..MaxPagesArg
MaxStart    == 2    \* start_urls has at most MaxStart entries
MaxLinks    == 2    \* a fetched page carries at most MaxLinks distinct hrefs
MaxLen      == 4    \* raw hrefs of the harness have at most MaxLen tokens

\* ---------------------------------------------------------------- strings
\* Tokens whose text begins with the four characters "http".
HttpTokens == {"https:", "httpdocs"}

\* Tokens that contain a colon (the colon is their last character).
ColonTokens == {"https:", "javascript:", "mailto:"}

\* Tokens made of scheme characters only (letters, digits, "+", "-", ".").
SchemeCharTokens == {"httpdocs", "..", "a", "b", "c", "d", ".pdf", "login", "LOGIN",
                     "privacy", "vanguard.com", "investor.", ".evil.net", "other.com", "void"}

\* Tokens whose first character is an ASCII letter.
AlphaStartTokens == {"https:", "javascript:", "mailto:", "httpdocs", "a", "b", "c", "d",
                     "login", "LOGIN", "privacy", "vanguard.com", "investor.", "other.com",
                     "void"}

\* str.lower() on one token.
LowerToken(t) == IF t = "LOGIN" THEN "login" ELSE t

\* str.lower()
Lower(s) == [i \in 1..Len(s) |-> LowerToken(s[i])]

\* Index of the first token of s, from position i on, that is in T; 0 if none.
RECURSIVE FirstIndex(_, _, _)
FirstIndex(s, T, i) ==
    IF i > Len(s) THEN 0
    ELSE IF s[i] \in T THEN i
    ELSE FirstIndex(s, T, i + 1)

\* s[from:] in Python's 1-based counterpart.
From(s, i) == SubSeq(s, i, Len(s))

\* s.split(sep)[0]
SplitFirst(s, sep) ==
    LET i == FirstIndex(s, {sep}, 1)
    IN  IF i = 0 THEN s ELSE SubSeq(s, 1, i - 1)

\* s.split(sep): the list of pieces
RECURSIVE Split(_, _)
Split(s, sep) ==
    LET i == FirstIndex(s, {sep}, 1)
    IN  IF i = 0 THEN <<s>>
        ELSE <<SubSeq(s, 1, i - 1)>> \o Split(From(s, i + 1), sep)

\* sep.join(pieces)
RECURSIVE Join(_, _)
Join(pieces, sep) ==
    IF pieces = <<>> THEN <<>>
    ELSE IF Len(pieces) = 1 THEN pieces[1]
    ELSE pieces[1] \o <<sep>> \o Join(Tail(pieces), sep)

\* s.startswith("//")
StartsWithSlashSlash(s) == Len(s) >= 2 /\ s[1] = "/" /\ s[2] = "/"

\* pattern in s, for a pattern that is the token sequence p
Contains(s, p) ==
    \E i \in 1..Len(s) : i + Len(p) - 1 <= Len(s) /\ SubSeq(s, i, i + Len(p) - 1) = p

\* ---------------------------------------------------------------- urllib
\* urlparse(u): the scheme is the text before the first colon when that text
\* starts with a letter and holds scheme characters only.
SchemeEnd(u) ==
    LET i == FirstIndex(u, ColonTokens, 1)
    IN  IF i > 0 /\ u[1] \in AlphaStartTokens
           /\ \A j \in 1..(i - 1) : u[j] \in SchemeCharTokens
        THEN i ELSE 0

AfterScheme(u) == From(u, SchemeEnd(u) + 1)

\* The netloc ends at the first "/" or "#" ("?" is not among the tokens).
NetlocOf(rest) ==
    LET i == FirstIndex(rest, {"/", "#"}, 1)
    IN  IF i = 0 THEN rest ELSE SubSeq(rest, 1, i - 1)

\* urlparse(u).netloc
Netloc(u) ==
    LET rest == AfterScheme(u)
    IN  IF StartsWithSlashSlash(rest) THEN NetlocOf(From(rest, 3)) ELSE <<>>

\* The dot-segment loop of urljoin over path.split('/').
RECURSIVE Resolve(_, _)
Resolve(segments, resolved) ==
    IF segments = <<>> THEN resolved
    ELSE LET seg == Head(segments)
         IN  Resolve(Tail(segments),
                     IF seg = <<"..">>
                     THEN (IF resolved = <<>> THEN resolved
                           ELSE SubSeq(resolved, 1, Len(resolved) - 1))
                     ELSE IF seg = <<".">> THEN resolved
                     ELSE Append(resolved, seg))

ResolvedPath(path) ==
    LET segments == Split(path, "/")
        resolved == Resolve(segments, <<>>)
        closed   == IF segments[Len(segments)] \in {<<".">>, <<"..">>}
                    THEN Append(resolved, <<>>) ELSE resolved
        joined   == Join(closed, "/")
    IN  IF joined = <<>> THEN <<"/">> ELSE joined

\* urlunparse for scheme https, a netloc and a path.
Unparse(netloc, path) ==
    <<"https:", "/", "/">> \o netloc
        \o (IF path # <<>> /\ path[1] # "/" THEN <<"/">> ELSE <<>>) \o path

\* self.base_url and its netloc
BaseUrl    == <<"https:", "/", "/", "investor.", "vanguard.com">>
BaseNetloc == Netloc(BaseUrl)

\* urljoin(self.base_url, u) for a u that begins with "/" (both call sites of
\* normalize_url pass such a u): a "//host..." reference keeps its own netloc
\* and path; any other takes the base's netloc and has its dot segments resolved;
\* an empty path gives the base itself.
UrlJoinBase(u) ==
    LET netloc == IF StartsWithSlashSlash(u) THEN SplitFirst(From(u, 3), "/") ELSE <<>>
        path   == IF StartsWithSlashSlash(u) THEN From(u, 3 + Len(netloc)) ELSE u
    IN  IF netloc # <<>> THEN Unparse(netloc, path)
        ELSE IF path = <<>> THEN BaseUrl
        ELSE Unparse(BaseNetloc, ResolvedPath(path))

\* ------------------------------------------------- normalize_url, should_crawl
\* A variant of the test below that recognises "http:" only.
StartsWithHttpOnly(u) == u # <<>> /\ u[1] = "http:"

\* url.startswith('http')
StartsWithHttp(u) == u # <<>> /\ u[1] \in HttpTokens

\* A variant of normalize_url that leaves the fragment in place.
normalize_url_keeping_fragment(href) ==
    IF href = <<>> THEN <<>>
    ELSE IF StartsWithHttp(href) THEN href
    ELSE IF href[1] = "/" THEN UrlJoinBase(href)
    ELSE UrlJoinBase(<<"/">> \o href)

\* VanguardComplianceScraper.normalize_url
normalize_url(href) ==
    IF href = <<>> THEN <<>>
    ELSE LET u == SplitFirst(href, "#")
         IN  IF StartsWithHttp(u) THEN u
             ELSE IF u # <<>> /\ u[1] = "/" THEN UrlJoinBase(u)
             ELSE UrlJoinBase(<<"/">> \o u)

\* ['vanguard.com', 'vanguard.co.uk']
TargetDomains == {"vanguard.com", "vanguard.co.uk"}

\* any(domain in parsed.netloc for domain in [...]): a substring test
DomainInNetloc(netloc) == \E i \in 1..Len(netloc) : netloc[i] \in TargetDomains

\* skip_extensions, by the token that spells one of them
SkipExtensions == {".pdf"}

\* any(url.lower().endswith(ext) for ext in skip_extensions)
HasSkipExtension(u) == u # <<>> /\ Lower(u)[Len(u)] \in SkipExtensions

\* skip_patterns, each as a token sequence
SkipPatterns == {<<"/", "login">>, <<"javascript:">>, <<"mailto:">>}

\* any(pattern in url.lower() for pattern in skip_patterns)
HasSkipPattern(u) == \E p \in SkipPatterns : Contains(Lower(u), p)

\* The domain, extension and path rules of should_crawl (lines 116-143).
ScopeRules(u) ==
    /\ DomainInNetloc(Netloc(u))
    /\ ~HasSkipExtension(u)
    /\ ~HasSkipPattern(u)

\* VanguardComplianceScraper.should_crawl, reading self.visited_urls = visited
should_crawl(u, visited) ==
    IF u = <<>> \/ u \in visited THEN FALSE
    ELSE ScopeRules(u)

\* ------------------------------------------------------- harness: pure functions
\* The tokens raw hrefs are drawn from.
LinkTokens == {"https:", "httpdocs", "/", "#", "..", "a", ".pdf", "LOGIN",
               "javascript:", "mailto:", "vanguard.com", ".evil.net"}


\* All token sequences of length at most n.
RECURSIVE SeqsUpTo(_)
SeqsUpTo(n) ==
    IF n = 0 THEN {<<>>}
    ELSE LET shorter == SeqsUpTo(n - 1)
         IN  shorter \cup {Append(s, t) : s \in {x \in shorter : Len(x) = n - 1},
                                           t \in LinkTokens}

RawLinks == SeqsUpTo(MaxLen)

\* State after construction (__init__, lines 69-77), before any crawl() call.
CrawlInit ==
    /\ visited_urls = {}
    /\ compliance_urls = <<>>
    /\ pc = "idle"
    /\ start_urls = <<>>
    /\ max_pages = 0
    /\ queue = <<>>
    /\ pages_crawled = 0
    /\ url = None
    /\ page_data = None
    /\ calls = 0
    /\ fetched = <<>>
    /\ outcomes = <<>>
    /\ run_mark = 0
    /\ edges = {}
    /\ saved_pages = None
    /\ saved_urls = None

NormIdle ==
    /\ npc = "off"
    /\ raw = <<>>
    /\ norm1 = <<>>
    /\ norm2 = <<>>
    /\ verdict1 = FALSE
    /\ verdict2 = FALSE

\* The classifier harness at rest.
ClassIdle ==
    /\ cpc = "off"
    /\ text = <<>>
    /\ page_url = <<>>
    /\ relevant = FALSE
    /\ found_keywords = <<>>
    /\ base_relevant = FALSE
    /\ violations = <<>>

\* The collecting program before it is started.
DedupIdle ==
    /\ dpc = "off"
    /\ produced = <<>>
    /\ dk = 0
    /\ all_actions = <<>>
    /\ seen_ids = {}
    /\ unique_actions = <<>>
    /\ max_items = 0
    /\ enforcement_data = <<>>
    /\ saved = None

\* No fetch operation is under way and the clock is not looked at.
RateIdle ==
    /\ rpc = "off"
    /\ gate = "sleep"
    /\ now = 0
    /\ min_interval = 0
    /\ last_request_time = 0
    /\ wake_at = 0
    /\ call_time = 0
    /\ call_elapsed = 0
    /\ prev_return = None
    /\ last_return = None
    /\ prev_get = None
    /\ last_get = None

\* No extractor pass is under way.
PassIdle ==
    /\ xpc = "idle"
    /\ extractor = "none"
    /\ pass_limit = 0
    /\ filter_compliance = FALSE
    /\ current_date = [year |-> 0, month |-> 0, day |-> 0]
    /\ listing_page = 0
    /\ releases = <<>>
    /\ requested = <<>>
    /\ yielded = <<>>
    /\ sentinels = {}

\* A fresh scraper object and one raw href to put through the functions.
NormInit ==
    /\ CrawlInit
    /\ PassIdle
    /\ ClassIdle
    /\ DedupIdle
    /\ RateIdle
    /\ npc = "start"
    /\ raw \in RawLinks
    /\ norm1 = <<>>
    /\ norm2 = <<>>
    /\ verdict1 = FALSE
    /\ verdict2 = FALSE

\* url = self.normalize_url(anchor['href'])
Normalize ==
    /\ npc = "start"
    /\ norm1' = normalize_url(raw)
    /\ npc' = "normalized"
    /\ UNCHANGED <<raw, norm2, verdict1, verdict2, exceptNorm>>

\* normalize_url applied to its own result
NormalizeAgain ==
    /\ npc = "normalized"
    /\ norm2' = normalize_url(norm1)
    /\ npc' = "renormalized"
    /\ UNCHANGED <<raw, norm1, verdict1, verdict2, exceptNorm>>

\* self.should_crawl(url) on both results
Judge ==
    /\ npc = "renormalized"
    /\ verdict1' = should_crawl(norm1, visited_urls)
    /\ verdict2' = should_crawl(norm2, visited_urls)
    /\ npc' = "judged"
    /\ UNCHANGED <<raw, norm1, norm2, exceptNorm>>

NormNext == Normalize \/ NormalizeAgain \/ Judge

NormSpec == NormInit /\ [][NormNext]_vars

\* ------------------------------------------------------------ the classifier
\* Taxonomy terms (COMPLIANCE_KEYWORDS) that are tokens of the model's URLs.
KeywordTokens == {"privacy"}

\* keyword.replace(' ', '-') in url_lower or keyword.replace(' ', '') in url_lower
UrlHasKeyword(u) == \E i \in 1..Len(u) : Lower(u)[i] \in KeywordTokens

\* The body-keyword threshold of line 93.
KeywordThreshold == 3

\* VanguardComplianceScraper.is_compliance_related, for a text in which
\* keyword_count distinct taxonomy terms occur.
is_compliance_related(keyword_count, u) ==
    IF UrlHasKeyword(u) THEN TRUE ELSE keyword_count >= KeywordThreshold

\* ------------------------------------------------------------ the web
\* The hrefs a page may carry: root-relative, path-relative with a fragment,
\* protocol-relative to a host that merely contains a target domain, absolute
\* to a foreign host, and an account path.
Hrefs == { <<"/", "a">>,
           <<"privacy", "#", "a">>,
           <<"/", "/", "vanguard.com", ".evil.net", "/", "d">>,
           <<"https:", "/", "/", "other.com", "/", "c">>,
           <<"/", "LOGIN">> }

\* The web's page bodies: the number of distinct taxonomy terms the cleaned
\* text of page u mentions.  Pages /a and /d sit at the threshold, every other
\* page one below it (and /privacy carries a taxonomy term in its URL).
BodyKeywordCount(u) ==
    IF u # <<>> /\ u[Len(u)] \in {"a", "d"} THEN KeywordThreshold ELSE KeywordThreshold - 1

\* The URLs crawl() may be started from: one in scope, one on a foreign host.
StartPool == { BaseUrl \o <<"/", "a">>,
               <<"https:", "/", "/", "other.com", "/", "c">> }

\* All sequences over S of length at most n.
RECURSIVE ListsUpTo(_, _)
ListsUpTo(S, n) ==
    IF n = 0 THEN {<<>>}
    ELSE LET shorter == ListsUpTo(S, n - 1)
         IN  shorter \cup {Append(s, t) : s \in {x \in shorter : Len(x) = n - 1}, t \in S}

\* The orders a set can come out of list(set(...)) in.
Orders(S) ==
    {s \in [1..Cardinality(S) -> S] : \A i, j \in 1..Cardinality(S) : s[i] = s[j] => i = j}

\* ------------------------------------------------------------ scrape_page
\* A variant of extract_links that does not ask should_crawl.
extract_links_unfiltered(hrefs, visited) ==
    {u \in {normalize_url(h) : h \in hrefs} : u # <<>>}

\* VanguardComplianceScraper.extract_links before the final list(set(links)):
\* the normalised hrefs that are non-empty and pass should_crawl.
extract_links(hrefs, visited) ==
    {u \in {normalize_url(h) : h \in hrefs} : u # <<>> /\ should_crawl(u, visited)}

\* page_data of a successful scrape_page(u).
PageData(u, keyword_count, links) ==
    [url |-> u,
     is_compliance_related |-> is_compliance_related(keyword_count, u),
     keyword_count |-> keyword_count,
     outbound_links |-> links]

\* ------------------------------------------------------------ crawl
\* while queue and pages_crawled < max_pages
LoopCondition(q, n, m) == q # <<>> /\ n < m

\* A variant of popleft that reads the front of the queue and leaves it there.
PopLeftKeep(q) == [item |-> Head(q), rest |-> q]

\* queue.popleft(): the element taken and the queue left
PopLeft(q) == [item |-> Head(q), rest |-> Tail(q)]

\* A variant of append that puts the link at the front (appendleft).
QueueAppendLeft(q, link) == <<link>> \o q

\* queue.append(link)
QueueAppend(q, link) == Append(q, link)

\* A variant of the visited-set update that forgets the URL.
VisitedAddSkipped(visited, u) == visited

\* self.visited_urls.add(url)
VisitedAdd(visited, u) == visited \cup {u}

\* A variant of the counter update that does not count the page.
CountPageSkipped(n) == n

\* pages_crawled += 1
CountPage(n) == n + 1

\* if link not in self.visited_urls and self.should_crawl(link)
Admits(link, visited) == link \notin visited /\ should_crawl(link, visited)

\* for link in page_data.get('outbound_links', []): ... queue.append(link)
RECURSIVE EnqueueLinks(_, _, _)
EnqueueLinks(q, links, visited) ==
    IF links = <<>> THEN q
    ELSE EnqueueLinks(IF Admits(Head(links), visited) THEN QueueAppend(q, Head(links)) ELSE q,
                      Tail(links), visited)

\* A call crawl(s, m) on the object: lines 219-223.
Crawl(s, m) ==
    /\ pc = "idle"
    /\ start_urls' = s
    /\ max_pages' = m
    /\ queue' = s
    /\ pages_crawled' = 0
    /\ url' = None
    /\ page_data' = None
    /\ pc' = "loop"
    /\ calls' = calls + 1
    /\ run_mark' = Len(fetched)
    /\ edges' = {}
    /\ UNCHANGED <<visited_urls, compliance_urls, fetched, outcomes, exceptCrawl>>

\* The loop condition is false: lines 254-258, return self.compliance_urls.
LoopExit ==
    /\ pc = "loop"
    /\ ~LoopCondition(queue, pages_crawled, max_pages)
    /\ pc' = "done"
    /\ UNCHANGED <<visited_urls, compliance_urls, start_urls, max_pages, queue,
                   pages_crawled, url, page_data, calls, fetched, outcomes, run_mark, edges, exceptCrawl>>

\* Lines 226-229: the popped URL is already visited, continue.
SkipVisited ==
    /\ pc = "loop"
    /\ LoopCondition(queue, pages_crawled, max_pages)
    /\ PopLeft(queue).item \in visited_urls
    /\ url' = PopLeft(queue).item
    /\ queue' = PopLeft(queue).rest
    /\ UNCHANGED <<visited_urls, compliance_urls, pc, start_urls, max_pages,
                   pages_crawled, page_data, calls, fetched, outcomes, run_mark, edges, exceptCrawl>>

\* Lines 226-233: pop a URL not yet visited and mark it visited.
Dequeue ==
    /\ pc = "loop"
    /\ LoopCondition(queue, pages_crawled, max_pages)
    /\ PopLeft(queue).item \notin visited_urls
    /\ url' = PopLeft(queue).item
    /\ queue' = PopLeft(queue).rest
    /\ visited_urls' = VisitedAdd(visited_urls, PopLeft(queue).item)
    /\ pc' = "fetch"
    /\ UNCHANGED <<compliance_urls, start_urls, max_pages, pages_crawled, page_data,
                   calls, fetched, outcomes, run_mark, edges, exceptCrawl>>

\* Line 234, scrape_page succeeds: the page carries the hrefs `hrefs`; the
\* links come out of list(set(links)) in any order.
ScrapeOk(hrefs) ==
    /\ pc = "fetch"
    /\ \E links \in Orders(extract_links(hrefs, visited_urls)) :
           page_data' = <<PageData(url, BodyKeywordCount(url), links)>>
    /\ fetched' = Append(fetched, url)
    /\ outcomes' = Append(outcomes, TRUE)
    /\ pc' = "process"
    /\ UNCHANGED <<visited_urls, compliance_urls, start_urls, max_pages, queue,
                   pages_crawled, url, calls, run_mark, edges, exceptCrawl>>

\* A variant of scrape_page whose error leaves crawl() as an exception.
ErrorRaised == "aborted"

\* Where crawl() stands after an error in scrape_page: the except clause
\* (lines 207-209) returns to line 234, and the loop goes on to line 236.
ErrorContained == "process"

\* Line 234, scrape_page fails: any Exception raised between lines 158 and 205
\* (the sleep, the GET, raise_for_status, the parsing) is caught at line 207
\* and None is returned.
ScrapeFail ==
    /\ pc = "fetch"
    /\ page_data' = None
    /\ fetched' = Append(fetched, url)
    /\ outcomes' = Append(outcomes, FALSE)
    /\ pc' = ErrorContained
    /\ UNCHANGED <<visited_urls, compliance_urls, start_urls, max_pages, queue,
                   pages_crawled, url, calls, run_mark, edges, exceptCrawl>>

\* A variant of the admission that appends every fetched page.
AdmitEveryPage(records, page) == Append(records, page)

\* Lines 240-242: if page_data['is_compliance_related']:
\*                    self.compliance_urls.append(page_data)
AdmitRecord(records, page) ==
    IF page.is_compliance_related THEN Append(records, page) ELSE records

\* Lines 236-247 for a page that was fetched.
ProcessPage ==
    /\ pc = "process"
    /\ page_data # None
    /\ pages_crawled' = CountPage(pages_crawled)
    /\ compliance_urls' = AdmitRecord(compliance_urls, page_data[1])
    /\ queue' = EnqueueLinks(queue, page_data[1].outbound_links, visited_urls)
    /\ edges' = edges \cup {<<url, page_data[1].outbound_links[i]>> :
                                i \in 1..Len(page_data[1].outbound_links)}
    /\ pc' = "loop"
    /\ UNCHANGED <<visited_urls, start_urls, max_pages, url, page_data, calls,
                   fetched, outcomes, run_mark, exceptCrawl>>

\* A variant of line 236 that counts a failed fetch as a page.
CountAnyway(n) == n + 1

\* Line 236, `if page_data:` for None: line 237 is not reached and the counter
\* stays as it is.
CountNone(n) == n

\* Line 236 for a failed fetch: nothing is done with the page.
ProcessNone ==
    /\ pc = "process"
    /\ page_data = None
    /\ pages_crawled' = CountNone(pages_crawled)
    /\ pc' = "loop"
    /\ UNCHANGED <<visited_urls, compliance_urls, start_urls, max_pages, queue,
                   url, page_data, calls, fetched, outcomes, run_mark, edges, exceptCrawl>>

HrefSets == {H \in SUBSET Hrefs : Cardinality(H) <= MaxLinks}

Init == CrawlInit /\ NormIdle /\ ClassIdle /\ DedupIdle /\ RateIdle /\ PassIdle

Next ==
    \/ \E s \in ListsUpTo(StartPool, MaxStart), m \in 0..MaxPagesArg : Crawl(s, m)
    \/ LoopExit
    \/ SkipVisited
    \/ Dequeue
    \/ \E H \in HrefSets : ScrapeOk(H)
    \/ ScrapeFail
    \/ ProcessPage
    \/ ProcessNone

Spec == Init /\ [][Next]_vars

\* The loop is a single thread that always takes its next step.
FairSpec == Init /\ [][Next]_vars /\ WF_vars(Next)

\* ------------------------------------------------------------ save_results
\* One step of a stable sort by ascending keyword_count: the record goes
\* behind the records whose count is not larger.
RECURSIVE InsertAscending(_, _)
InsertAscending(sorted, page) ==
    IF sorted = <<>> THEN <<page>>
    ELSE IF Head(sorted).keyword_count <= page.keyword_count
         THEN <<Head(sorted)>> \o InsertAscending(Tail(sorted), page)
         ELSE <<page>> \o sorted

\* One step of sorted(..., reverse=True): the record goes behind the records
\* whose count is not smaller, so that equal counts keep their order.
RECURSIVE InsertDescending(_, _)
InsertDescending(sorted, page) ==
    IF sorted = <<>> THEN <<page>>
    ELSE IF Head(sorted).keyword_count >= page.keyword_count
         THEN <<Head(sorted)>> \o InsertDescending(Tail(sorted), page)
         ELSE <<page>> \o sorted

\* A variant of lines 263-267 without reverse=True.
RECURSIVE sorted_ascending(_)
sorted_ascending(records) ==
    IF records = <<>> THEN <<>>
    ELSE InsertAscending(sorted_ascending(SubSeq(records, 1, Len(records) - 1)),
                         records[Len(records)])

\* Lines 263-267: sorted(self.compliance_urls, key=lambda x: x['keyword_count'],
\* reverse=True).  Python's sort is stable, also under reverse=True.
RECURSIVE sorted_results(_)
sorted_results(records) ==
    IF records = <<>> THEN <<>>
    ELSE InsertDescending(sorted_results(SubSeq(records, 1, Len(records) - 1)),
                          records[Len(records)])

\* Lines 281-284: one line per page of the sorted list.
UrlLines(pages) == [i \in 1..Len(pages) |-> pages[i].url]

\* save_results(), lines 260-288, called after a crawl() has returned.
SaveResults ==
    /\ pc = "done"
    /\ saved_pages = None
    /\ saved_pages' = <<sorted_results(compliance_urls)>>
    /\ saved_urls' = <<UrlLines(sorted_results(compliance_urls))>>
    /\ UNCHANGED exceptSave

SaveNext == Next \/ SaveResults

SaveSpec == Init /\ [][SaveNext]_vars


\* ------------------------------------------------------------ a second call
\* crawl() is called again on the same object, with the arguments of the first
\* call, when that call has returned: lines 219-223 run again; nothing else
\* of the object is touched.
CrawlAgain ==
    /\ pc = "done"
    /\ calls = 1
    /\ queue' = start_urls
    /\ pages_crawled' = 0
    /\ url' = None
    /\ page_data' = None
    /\ pc' = "loop"
    /\ calls' = calls + 1
    /\ run_mark' = Len(fetched)
    /\ edges' = {}
    /\ UNCHANGED <<visited_urls, compliance_urls, start_urls, max_pages, fetched, outcomes, exceptCrawl>>

TwoCallNext == Next \/ CrawlAgain

\* One scraper object, crawl() called on it twice.
TwoCallSpec == Init /\ [][TwoCallNext]_vars

\* ================================================ the classifiers, on page text
\* A page text is a sequence of words; its str is the words joined by single
\* spaces (get_text(separator=' ', strip=True)).  The words of the model:
Words == {"the", "Legal", "privacy", "fraud", "Cybersecurity", "data", "protection"}

MaxWords == 3    \* a text of the harness has at most MaxWords words

\* str.lower() of one word
LowerWord(w) ==
    IF w = "Legal" THEN "legal"
    ELSE IF w = "Cybersecurity" THEN "cybersecurity"
    ELSE w

\* A variant of lower() that leaves the text as it is.
TextAsIs(t) == t

\* text.lower()
TextLower(t) == [i \in 1..Len(t) |-> LowerWord(t[i])]

\* k in w, for a one-word taxonomy term k and a lower-cased word w: the
\* substring relation of Python's `in` on the words of the model.
WordContains(w, k) ==
    \/ k = w
    \/ w = "cybersecurity" /\ k \in {"security", "sec"}

\* keyword in text_lower, for a taxonomy term given as its sequence of words.
\* A term of several words occurs where its words stand side by side.
KeywordIn(keyword, text_lower) ==
    IF Len(keyword) = 1
    THEN \E i \in 1..Len(text_lower) : WordContains(text_lower[i], keyword[1])
    ELSE \E i \in 1..Len(text_lower) :
             /\ i + Len(keyword) - 1 <= Len(text_lower)
             /\ \A j \in 1..Len(keyword) : text_lower[i + j - 1] = keyword[j]

\* VanguardComplianceScraper.COMPLIANCE_KEYWORDS, in list order, restricted to
\* the terms that can occur in a text over Words.
COMPLIANCE_KEYWORDS ==
    << <<"legal">>, <<"privacy">>, <<"security">>, <<"fraud">>, <<"protection">>,
       <<"sec">>, <<"cybersecurity">>, <<"data", "protection">> >>

\* BaseScraper.COMPLIANCE_KEYWORDS, likewise.
BaseScraper_COMPLIANCE_KEYWORDS == << <<"fraud">>, <<"cybersecurity">> >>

\* [keyword for keyword in keywords if keyword in text_lower]
RECURSIVE KeywordsFound(_, _)
KeywordsFound(keywords, text_lower) ==
    IF keywords = <<>> THEN <<>>
    ELSE (IF KeywordIn(Head(keywords), text_lower) THEN <<Head(keywords)>> ELSE <<>>)
         \o KeywordsFound(Tail(keywords), text_lower)

\* sum(1 for keyword in self.COMPLIANCE_KEYWORDS if keyword in text_lower)
KeywordCount(t) == Len(KeywordsFound(COMPLIANCE_KEYWORDS, TextLower(t)))

\* found_keywords of scrape_page: keyword in text_content.lower()
FoundKeywords(t) == KeywordsFound(COMPLIANCE_KEYWORDS, TextLower(t))

\* The elements of a list.
Range(s) == {s[i] : i \in 1..Len(s)}

\* BaseScraper.extract_violations: the lists list(set(found)) may return.
extract_violations(t) ==
    IF t = <<>> THEN {<<>>}
    ELSE Orders(Range(KeywordsFound(BaseScraper_COMPLIANCE_KEYWORDS, TextLower(t))))

\* BaseScraper.is_compliance_related: any(kw in text_lower for kw in ...)
BaseScraper_is_compliance_related(t) ==
    IF t = <<>> THEN FALSE
    ELSE \E i \in 1..Len(BaseScraper_COMPLIANCE_KEYWORDS) :
             KeywordIn(BaseScraper_COMPLIANCE_KEYWORDS[i], TextLower(t))

\* All texts of at most n words.
Texts(n) == ListsUpTo(Words, n)

\* The page URLs of the harness: one without a taxonomy term, one with.
ClassUrls == { BaseUrl \o <<"/", "a">>, BaseUrl \o <<"/", "privacy">> }

\* A fresh scraper object and one page (text, url) to classify.
ClassInit ==
    /\ CrawlInit
    /\ PassIdle
    /\ RateIdle
    /\ NormIdle
    /\ DedupIdle
    /\ cpc = "start"
    /\ text \in Texts(MaxWords)
    /\ page_url \in ClassUrls
    /\ relevant = FALSE
    /\ found_keywords = <<>>
    /\ base_relevant = FALSE
    /\ violations = <<>>

\* scrap_st.py line 182: is_compliance = self.is_compliance_related(text_content, url)
Classify ==
    /\ cpc = "start"
    /\ relevant' = is_compliance_related(KeywordCount(text), page_url)
    /\ cpc' = "classified"
    /\ UNCHANGED <<text, page_url, found_keywords, base_relevant, violations, exceptClass>>

\* scrap_st.py lines 185-188: the found_keywords list
FindKeywords ==
    /\ cpc = "classified"
    /\ found_keywords' = FoundKeywords(text)
    /\ cpc' = "found"
    /\ UNCHANGED <<text, page_url, relevant, base_relevant, violations, exceptClass>>

\* scraper.py: self.is_compliance_related(text) on the same text
BaseClassify ==
    /\ cpc = "found"
    /\ base_relevant' = BaseScraper_is_compliance_related(text)
    /\ cpc' = "base_classified"
    /\ UNCHANGED <<text, page_url, relevant, found_keywords, violations, exceptClass>>

\* scraper.py: self.extract_violations(text) on the same text
ExtractViolations ==
    /\ cpc = "base_classified"
    /\ violations' \in extract_violations(text)
    /\ cpc' = "extracted"
    /\ UNCHANGED <<text, page_url, relevant, found_keywords, base_relevant, exceptClass>>

ClassNext == Classify \/ FindKeywords \/ BaseClassify \/ ExtractViolations

ClassSpec == ClassInit /\ [][ClassNext]_vars

\* ================================================ scraper.py: collect and deduplicate
MaxRecords == 3    \* the extractor passes produce at most MaxRecords links in all

\* The source labels the extractors write into their records.
Sources == {"SEC", "FINRA"}

\* SECScraper.BASE_URL and FINRAScraper.BASE_URL
BASE_URL(source) ==
    IF source = "SEC" THEN <<"https:", "/", "/", "www.sec.gov">>
    ELSE <<"https:", "/", "/", "www.finra.org">>

\* urljoin(base, href) for a base "https://host" without a path and an href
\* that is a root-relative path or an absolute https URL with a host, with or
\* without a fragment: the fragment is split off, the reference is resolved
\* and urlunparse puts a non-empty fragment back.
urljoin(base, href) ==
    LET i    == FirstIndex(href, {"#"}, 1)
        ref  == IF i = 0 THEN href ELSE SubSeq(href, 1, i - 1)
        frag == IF i = 0 THEN <<>> ELSE From(href, i + 1)
        full == IF SchemeEnd(ref) > 0 THEN ref
                ELSE IF StartsWithSlashSlash(ref) THEN <<"https:">> \o ref
                ELSE IF ref = <<>> THEN base
                ELSE Unparse(Netloc(base),
                             ResolvedPath(IF ref[1] = "/" THEN ref ELSE <<"/">> \o ref))
    IN  IF frag = <<>> THEN full ELSE full \o <<"#">> \o frag

\* The hrefs a listing page may carry for a release; the token "lr-1" stands
\* for "litigation-releases/lr-1", which the extractor's pattern matches.
DedupHrefs == { <<"/", "lr-1">>,
                <<"/", "lr-1", "#", "x">>,
                <<"/", "lr-2">>,
                <<"https:", "/", "/", "www.sec.gov", "/", "lr-1">> }

\* EnforcementAction(source=..., title=..., url=full_url, ...); the title
\* tells apart the records built from different links.
EnforcementAction(source, title, full_url) ==
    [source |-> source, title |-> title, url |-> full_url]

\* EnforcementAction.unique_id: md5 of f"{source}:{url}", first 12 hex digits.
\* The digest is represented by the string it is taken of: distinct strings
\* are taken to have distinct 48-bit digests.
unique_id(action) == <<action.source, ":">> \o action.url

\* A variant of seen_ids.add that forgets the id.
SeenAddSkipped(seen, id) == seen

\* seen_ids.add(action.unique_id)
SeenAdd(seen, id) == seen \cup {id}

\* What the five extractor passes will read off the listing pages, in order:
\* each entry is the source of the pass and the href of one link.
Productions ==
    ListsUpTo({[source |-> s, href |-> h] : s \in Sources, h \in DedupHrefs}, MaxRecords)

\* main() of scraper.py at the first extractor pass.
DedupInit ==
    /\ CrawlInit
    /\ PassIdle
    /\ RateIdle
    /\ NormIdle
    /\ ClassIdle
    /\ dpc = "collect"
    /\ produced \in Productions
    /\ dk = 0
    /\ all_actions = <<>>
    /\ seen_ids = {}
    /\ unique_actions = <<>>
    /\ max_items = 0
    /\ enforcement_data = <<>>
    /\ saved = None

\* One iteration of an extractor loop: full_url = urljoin(self.BASE_URL, href),
\* the record is yielded and main appends it to all_actions.
Collect ==
    /\ dpc = "collect"
    /\ dk < Len(produced)
    /\ LET link == produced[dk + 1]
       IN  all_actions' = Append(all_actions,
               EnforcementAction(link.source, dk + 1, urljoin(BASE_URL(link.source), link.href)))
    /\ dk' = dk + 1
    /\ UNCHANGED <<dpc, produced, seen_ids, unique_actions, max_items,
                   enforcement_data, saved, exceptDedup>>

\* Lines 718-720: the passes are over; seen_ids = set(), unique_actions = [].
StartDedup ==
    /\ dpc = "collect"
    /\ dk = Len(produced)
    /\ dpc' = "dedup"
    /\ dk' = 0
    /\ seen_ids' = {}
    /\ unique_actions' = <<>>
    /\ UNCHANGED <<produced, all_actions, max_items, enforcement_data, saved, exceptDedup>>

\* Lines 721-724: one iteration of the deduplication loop.
DedupStep ==
    /\ dpc = "dedup"
    /\ dk < Len(all_actions)
    /\ LET action == all_actions[dk + 1]
       IN  IF unique_id(action) \notin seen_ids
           THEN /\ seen_ids' = SeenAdd(seen_ids, unique_id(action))
                /\ unique_actions' = Append(unique_actions, action)
           ELSE UNCHANGED <<seen_ids, unique_actions>>
    /\ dk' = dk + 1
    /\ UNCHANGED <<dpc, produced, all_actions, max_items, enforcement_data, saved, exceptDedup>>

\* Lines 730-733: unique_actions is handed to the exporter.
Export ==
    /\ dpc = "dedup"
    /\ dk = Len(all_actions)
    /\ dpc' = "exported"
    /\ UNCHANGED <<produced, dk, all_actions, seen_ids, unique_actions, max_items,
                   enforcement_data, saved, exceptDedup>>

DedupNext == Collect \/ StartDedup \/ DedupStep \/ Export

DedupSpec == DedupInit /\ [][DedupNext]_vars

\* ================================================ script.py: scrape and save
MaxPasses  == 2    \* the SEC scraper reads at most MaxPasses listing pages
MaxListing == 2    \* a listing page carries at most MaxListing links

\* The hrefs a listing page of script.py may carry; "lr-1" stands for a path
\* that the listing's link pattern matches ('litreleases/...', 'case-detail...').
ExportHrefs == { <<"/", "lr-1">>,
                 <<"lr-1">>,
                 <<"https:", "/", "/", "www.sec.gov", "/", "lr-1">>,
                 <<"/", "about">> }

\* 'litreleases' in href.lower() or 'litrelease' in href.lower()
IsReleaseHref(href) == \E i \in 1..Len(href) : href[i] = "lr-1"

\* script.py _normalize_url (lines 239-246 and 449-456)
script_normalize_url(base_url, u) ==
    IF StartsWithHttp(u) THEN u
    ELSE IF u # <<>> /\ u[1] = "/" THEN base_url \o u
    ELSE base_url \o <<"/">> \o u

\* The keys of unique_links, in insertion order: unique_links[href] = link for
\* every link of the listing that names a release.
RECURSIVE UniqueLinks(_, _)
UniqueLinks(links, keys) ==
    IF links = <<>> THEN keys
    ELSE UniqueLinks(Tail(links),
                     IF IsReleaseHref(Head(links)) /\ Head(links) \notin Range(keys)
                     THEN Append(keys, Head(links)) ELSE keys)

\* links[:n]
FirstItems(links, n) == SubSeq(links, 1, IF n < Len(links) THEN n ELSE Len(links))

\* The list `data` built by the detail loop over hrefs: a record for each href
\* whose detail page was scraped (ok[i]), none for one whose scrape failed.
RECURSIVE DetailRecords(_, _, _, _)
DetailRecords(source, hrefs, ok, i) ==
    IF i > Len(hrefs) THEN <<>>
    ELSE (IF ok[i]
          THEN <<[source |-> source, url |-> script_normalize_url(BASE_URL(source), hrefs[i])]>>
          ELSE <<>>)
         \o DetailRecords(source, hrefs, ok, i + 1)

\* All listing pages of at most MaxListing links.
Listings == ListsUpTo(ExportHrefs, MaxListing)

\* A scrape_* method of script.py is called on a fresh scraper: the SEC one
\* will read the listing pages `produced` one after the other, the FINRA one
\* reads one listing page.
ExportInit ==
    /\ CrawlInit
    /\ PassIdle
    /\ RateIdle
    /\ NormIdle
    /\ ClassIdle
    /\ dpc \in {"sec", "finra"}
    /\ produced \in ListsUpTo(Listings, MaxPasses)
    /\ dpc = "finra" => Len(produced) = 1
    /\ dk = 0
    /\ all_actions = <<>>
    /\ seen_ids = {}
    /\ unique_actions = <<>>
    /\ max_items \in 1..MaxListing
    /\ enforcement_data = <<>>
    /\ saved = None

\* SECScraper.scrape_enforcement_actions, one call of
\* _scrape_litigation_releases_new or _scrape_admin_proceedings_new and the
\* extend that follows it.
ScrapeListing ==
    /\ dpc = "sec"
    /\ dk < Len(produced)
    /\ LET hrefs == FirstItems(UniqueLinks(produced[dk + 1], <<>>), max_items)
       IN  \E ok \in [1..Len(hrefs) -> BOOLEAN] :
               enforcement_data' = enforcement_data \o DetailRecords("SEC", hrefs, ok, 1)
    /\ dk' = dk + 1
    /\ UNCHANGED <<dpc, produced, all_actions, seen_ids, unique_actions, max_items,
                   saved, exceptDedup>>

\* FINRAScraper.scrape_disciplinary_actions, lines 304-317: the loop over
\* action_links[:max_items]; the listing holds the links the pattern matched.
ScrapeDisciplinary ==
    /\ dpc = "finra"
    /\ dk < Len(produced)
    /\ LET action_links == SelectSeq(produced[dk + 1], IsReleaseHref)
           hrefs        == FirstItems(action_links, max_items)
       IN  \E ok \in [1..Len(hrefs) -> BOOLEAN] :
               enforcement_data' = enforcement_data \o DetailRecords("FINRA", hrefs, ok, 1)
    /\ dk' = dk + 1
    /\ UNCHANGED <<dpc, produced, all_actions, seen_ids, unique_actions, max_items,
                   saved, exceptDedup>>

\* self._save_data(enforcement_data, ...) after the last listing page.
SaveData ==
    /\ dpc \in {"sec", "finra"}
    /\ dk = Len(produced)
    /\ saved' = <<enforcement_data>>
    /\ dpc' = "saved"
    /\ UNCHANGED <<produced, dk, all_actions, seen_ids, unique_actions, max_items,
                   enforcement_data, exceptDedup>>

ExportNext == ScrapeListing \/ ScrapeDisciplinary \/ SaveData

ExportSpec == ExportInit /\ [][ExportNext]_vars

\* ================================================ rate limiting
\* Time is counted in ticks.  A statement takes no time; time passes while the
\* scraper sleeps and between its fetch operations (the request itself, the
\* parsing, the other work of the loops).  time.sleep(d) returns when at least
\* d has passed; the clock never runs backwards.
MaxInterval == 2    \* min_interval (1/rate), or rate_limit_delay, is 1..MaxInterval ticks
MaxClock    == 8    \* the clock is followed up to MaxClock

\* A variant of the remaining interval that is nothing.
NoRemaining(interval, elapsed) == 0

\* self.min_interval - elapsed
Remaining(interval, elapsed) == interval - elapsed

\* A variant of the sleep before a GET that takes no time.
NoDelay(delay) == 0

\* time.sleep(self.rate_limit_delay)
SleepDuration(delay) == delay

\* A scraper instance after construction: a BaseScraper of scraper.py with its
\* RateLimiter (last_request_time = 0), or a scraper of scrap_st.py / script.py
\* with its rate_limit_delay.  The clock reads the time since the epoch, which
\* is not less than any interval.
RateInit ==
    /\ CrawlInit
    /\ PassIdle
    /\ NormIdle
    /\ ClassIdle
    /\ DedupIdle
    /\ rpc = "idle"
    /\ gate \in {"RateLimiter", "sleep"}
    /\ now = MaxInterval
    /\ min_interval \in 1..MaxInterval
    /\ last_request_time = 0
    /\ wake_at = 0
    /\ call_time = 0
    /\ call_elapsed = 0
    /\ prev_return = None
    /\ last_return = None
    /\ prev_get = None
    /\ last_get = None

\* Time passes, while the scraper sleeps or is between two fetch operations.
Tick ==
    /\ rpc \in {"idle", "sleeping"}
    /\ now < MaxClock
    /\ now' = now + 1
    /\ UNCHANGED <<rpc, gate, min_interval, last_request_time, wake_at, call_time,
                   call_elapsed, prev_return, last_return, prev_get, last_get, exceptRate>>

\* fetch_page / fetch_text call self.rate_limiter.wait(): lines 62-64, and
\* line 66 as well when the call does not sleep.
WaitCall ==
    /\ rpc = "idle"
    /\ gate = "RateLimiter"
    /\ call_time' = now
    /\ call_elapsed' = now - last_request_time
    /\ IF now - last_request_time < min_interval
       THEN /\ wake_at' = now + Remaining(min_interval, now - last_request_time)
            /\ rpc' = "sleeping"
            /\ UNCHANGED <<last_request_time, prev_return, last_return>>
       ELSE /\ last_request_time' = now
            /\ rpc' = "returned"
            /\ prev_return' = last_return
            /\ last_return' = <<now>>
            /\ UNCHANGED wake_at
    /\ UNCHANGED <<gate, now, min_interval, prev_get, last_get, exceptRate>>

\* The sleep of line 65 is over; line 66: self.last_request_time = time.time().
WaitWake ==
    /\ rpc = "sleeping"
    /\ gate = "RateLimiter"
    /\ now >= wake_at
    /\ last_request_time' = now
    /\ rpc' = "returned"
    /\ prev_return' = last_return
    /\ last_return' = <<now>>
    /\ UNCHANGED <<gate, now, min_interval, wake_at, call_time, call_elapsed,
                   prev_get, last_get, exceptRate>>

\* scrap_st.py line 159, script.py lines 90, 150, 198, 296, 336, 366, 416:
\* time.sleep(self.rate_limit_delay) in front of the GET.
SleepCall ==
    /\ rpc = "idle"
    /\ gate = "sleep"
    /\ call_time' = now
    /\ wake_at' = now + SleepDuration(min_interval)
    /\ rpc' = "sleeping"
    /\ UNCHANGED <<gate, now, min_interval, last_request_time, call_elapsed,
                   prev_return, last_return, prev_get, last_get, exceptRate>>

\* That sleep is over.
SleepWake ==
    /\ rpc = "sleeping"
    /\ gate = "sleep"
    /\ now >= wake_at
    /\ rpc' = "returned"
    /\ prev_return' = last_return
    /\ last_return' = <<now>>
    /\ UNCHANGED <<gate, now, min_interval, last_request_time, wake_at, call_time,
                   call_elapsed, prev_get, last_get, exceptRate>>

\* The statement after the gate: session.get(url) / requests.get(url).
Get ==
    /\ rpc = "returned"
    /\ prev_get' = last_get
    /\ last_get' = <<now>>
    /\ rpc' = "idle"
    /\ UNCHANGED <<gate, now, min_interval, last_request_time, wake_at, call_time,
                   call_elapsed, prev_return, last_return, exceptRate>>

RateNext == Tick \/ WaitCall \/ WaitWake \/ SleepCall \/ SleepWake \/ Get

RateSpec == RateInit /\ [][RateNext]_vars

\* ================================================================ extractor passes
\* The generator methods of scraper.py (SECScraper.scrape_litigation_releases,
\* scrape_press_releases, scrape_admin_proceedings and
\* FINRAScraper.scrape_monthly_actions) and _scrape_release_detail of script.py,
\* each run to its end by the caller's for loop.

MaxListingPages == 2    \* an SEC pass is called with max_pages in 0..MaxListingPages
MaxMonths       == 3    \* scrape_monthly_actions is called with months_back in 0..MaxMonths

\* ------------------------------------------------------------ the calendar
\* The proleptic Gregorian calendar of datetime.
IsLeap(y) == (y % 4 = 0 /\ y % 100 # 0) \/ y % 400 = 0

DaysIn(y, m) ==
    IF m = 2 THEN (IF IsLeap(y) THEN 29 ELSE 28)
    ELSE IF m \in {4, 6, 9, 11} THEN 30
    ELSE 31

\* The last day of the month before the month of d.
EndOfPreviousMonth(d) ==
    IF d.month > 1
    THEN [year |-> d.year, month |-> d.month - 1, day |-> DaysIn(d.year, d.month - 1)]
    ELSE [year |-> d.year - 1, month |-> 12, day |-> 31]

\* date - timedelta(days=n)
RECURSIVE MinusDays(_, _)
MinusDays(d, n) ==
    IF n < d.day THEN [d EXCEPT !.day = d.day - n]
    ELSE MinusDays(EndOfPreviousMonth(d), n - d.day)

\* The values datetime.now() may have at line 396: the days of one year.
Dates ==
    {x \in [year : {2025}, month : 1..12, day : 1..31] : x.day <= DaysIn(x.year, x.month)}

\* strftime('%B').lower()
MonthNames == <<"january", "february", "march", "april", "may", "june", "july",
                "august", "september", "october", "november", "december">>

\* str.capitalize() of a month name
Capitalized == <<"January", "February", "March", "April", "May", "June", "July",
                 "August", "September", "October", "November", "December">>

\* FINRAScraper.MONTHLY_ACTION_PATTERN filled in and put behind BASE_URL (line 403).
MonthlyUrl(month, year) ==
    BASE_URL("FINRA") \o <<"/", "rules-guidance", "/", "rulebooks", "/",
                           "monthly-disciplinary-actions-", MonthNames[month], "-",
                           ToString(year)>>

\* Line 399: target_date = current_date - timedelta(days=30 * i)
TargetDate(now_date, i) == MinusDays(now_date, 30 * i)

\* ------------------------------------------------------------ the pages
\* A fetch issued by a pass: what was asked for, whether a page came back and
\* how many matching links the page had.
Request(kind, u, ok, links) == [kind |-> kind, url |-> u, ok |-> ok, links |-> links]

\* The summary pages a month's URL may answer with: one with a field-body or
\* main element holding text, one without it that links to a PDF.
PeriodPages ==
    { [content |-> << <<"fraud", "data">> >>, pdf_links |-> <<>>],
      [content |-> None,
       pdf_links |-> << <<"/", "sites", "/", "Disciplinary", "_actions", ".pdf">> >>] }

\* 'disciplinary' in pdf_href.lower()
MentionsDisciplinary(href) == \E i \in 1..Len(href) : href[i] \in {"disciplinary", "Disciplinary"}

\* Lines 421-431: the summary record of a month.
MonthlySummary(month, year, u, raw_text, found) ==
    [source |-> "FINRA",
     action_type |-> "monthly_disciplinary_summary",
     release_number |-> <<Capitalized[month], "-", ToString(year)>>,
     title |-> <<"FINRA Monthly Disciplinary Actions - ", Capitalized[month], " ", ToString(year)>>,
     date |-> << <<Capitalized[month], " ", ToString(year)>> >>,
     url |-> u,
     summary |-> <<raw_text>>,
     violations |-> found,
     raw_text |-> <<raw_text>>]

\* Lines 441-450: the record of a PDF link.
MonthlyPdf(month, year, pdf_href) ==
    [source |-> "FINRA",
     action_type |-> "monthly_disciplinary_pdf",
     release_number |-> <<"PDF-", Capitalized[month], "-", ToString(year)>>,
     title |-> <<"FINRA Disciplinary Actions PDF - ", Capitalized[month], " ", ToString(year)>>,
     date |-> << <<Capitalized[month], " ", ToString(year)>> >>,
     url |-> urljoin(BASE_URL("FINRA"), pdf_href),
     summary |-> << <<"Detailed disciplinary action document (PDF)">> >>,
     violations |-> <<>>,
     raw_text |-> None]

\* Lines 436-452: the records of the PDF links of a page, in page order.
RECURSIVE PdfRecords(_, _, _)
PdfRecords(month, year, pdf_links) ==
    IF pdf_links = <<>> THEN <<>>
    ELSE (IF MentionsDisciplinary(Head(pdf_links))
          THEN <<MonthlyPdf(month, year, Head(pdf_links))>> ELSE <<>>)
         \o PdfRecords(month, year, Tail(pdf_links))

\* ------------------------------------------------------------ SEC listings
SecExtractors == {"litigation_releases", "press_releases", "admin_proceedings"}

\* SECScraper.ENDPOINTS
ENDPOINTS(e) ==
    IF e = "litigation_releases" THEN <<"/", "enforcement-litigation", "/", "litigation-releases">>
    ELSE IF e = "admin_proceedings"
         THEN <<"/", "enforcement-litigation", "/", "administrative-proceedings">>
         ELSE <<"/", "newsroom", "/", "press-releases">>

\* Lines 156, 229, 315: url = f"{base_url}?page={page}" if page > 0 else base_url
ListingUrl(e, n) ==
    BASE_URL("SEC") \o ENDPOINTS(e) \o (IF n > 0 THEN <<"?page=", ToString(n)>> ELSE <<>>)

\* A link of a listing page: its href and its text.
Link(href, title) == [href |-> href, title |-> title]

\* The links the find_all patterns of an extractor match on the listing pages
\* (lines 163-167, 236, 322): the first has a compliance term in its title, the
\* second has none, the third has one in capitals.  The second litigation link
\* matches the alternative pattern and the second administrative link has no
\* release number in its href.
ReleaseLinks(e) ==
    IF e = "litigation_releases"
    THEN << Link(<<"/", "litigation-releases", "/", "lr-", "26001">>, <<"fraud">>),
            Link(<<"/", "litigation", "/", "litreleases", "/", "comp.htm">>, <<"the", "data">>),
            Link(<<"/", "litigation-releases", "/", "lr-", "26002">>, <<"Cybersecurity">>) >>
    ELSE IF e = "admin_proceedings"
    THEN << Link(<<"/", "administrative-proceedings", "/", "ia-", "6001">>, <<"fraud">>),
            Link(<<"/", "administrative-proceedings", "/", "notice">>, <<"the", "data">>),
            Link(<<"/", "administrative-proceedings", "/", "34-", "9002">>, <<"Cybersecurity">>) >>
    ELSE << Link(<<"/", "press-releases", "/", "2025-", "11">>, <<"fraud">>),
            Link(<<"/", "press-releases", "/", "2025-", "12">>, <<"the", "data">>),
            Link(<<"/", "press-releases", "/", "2025-", "13">>, <<"Cybersecurity">>) >>

\* The matching links a listing page of the extractor may carry, in page order.
ListingPages(e) ==
    LET l == ReleaseLinks(e)
    IN  { <<>>, <<l[1]>>, <<l[2], l[3]>>, <<l[3], l[1]>> }

\* Lines 175, 244, 330-333: the link is passed over before anything is done.
NoHref(e, href) ==
    \/ href = <<>>
    \/ /\ e = "admin_proceedings"
       /\ \/ ~Contains(href, <<"/", "administrative-proceedings">>)
          \/ href = ENDPOINTS(e)

\* The tokens of the harness that are runs of digits.
Digits == {"26001", "26002", "6001", "9002", "11", "12", "13"}

\* The first place in s where a token of `prefixes` is followed by digits, or 0.
RECURSIVE NumberAt(_, _, _)
NumberAt(s, prefixes, i) ==
    IF i >= Len(s) THEN 0
    ELSE IF s[i] \in prefixes /\ s[i + 1] \in Digits THEN i
    ELSE NumberAt(s, prefixes, i + 1)

\* Lines 182-183, 251-252, 339-340: the release number found by re.search in
\* the title and href (LR[- ]?(\d+), ignoring case), or in the href
\* ((\d{4}-\d+); (ia-\d+|33-\d+|34-\d+), upper-cased), or None.
ReleaseNum(e, title, href) ==
    IF e = "litigation_releases"
    THEN LET s == title \o href
             i == NumberAt(s, {"lr-", "LR-", "lr", "LR"}, 1)
         IN  IF i > 0 THEN <<"LR-", s[i + 1]>> ELSE None
    ELSE IF e = "admin_proceedings"
    THEN LET i == NumberAt(href, {"ia-", "IA-", "33-", "34-"}, 1)
         IN  IF i > 0 THEN <<(IF href[i] = "ia-" THEN "IA-" ELSE href[i]), href[i + 1]>> ELSE None
    ELSE LET i == NumberAt(href, {"2025-"}, 1)
         IN  IF i > 0 THEN <<href[i], href[i + 1]>> ELSE None

\* The action_type an extractor gives its records.
ActionType(e) ==
    IF e = "litigation_releases" THEN "litigation_release"
    ELSE IF e = "admin_proceedings" THEN "administrative_proceeding"
    ELSE "press_release"

\* The detail page behind a release URL: the text of its article-content or
\* main element and the text of its time element, each of which may be
\* missing.  Texts stay below the 500 characters at which the summary is cut.
DetailPage(full_url) ==
    LET last == full_url[Len(full_url)]
    IN  IF last \in {"26001", "6001", "11"}
        THEN [raw_text |-> << <<"fraud", "data">> >>, date |-> << <<"2025-11-03">> >>]
        ELSE IF last \in {"26002", "9002", "13"}
        THEN [raw_text |-> << <<"the", "data">> >>, date |-> None]
        ELSE [raw_text |-> None, date |-> None]

\* raw_text or title
TextOrTitle(raw_text, title) ==
    IF raw_text = None \/ raw_text[1] = <<>> THEN title ELSE raw_text[1]

\* A variant of line 255 without the quick filter.
TitleNotFiltered(e, filter, title) == FALSE

\* Line 255: the quick filter on the title.
TitleFiltered(e, filter, title) ==
    e = "press_releases" /\ filter /\ ~BaseScraper_is_compliance_related(title)

\* Line 285: the final filter on the full text.
TextFiltered(e, filter, raw_text) ==
    /\ e = "press_releases"
    /\ filter
    /\ raw_text # None /\ raw_text[1] # <<>>
    /\ ~BaseScraper_is_compliance_related(raw_text[1])

\* Lines 205-215, 290-302, 360-370: the record of a release; detail is the
\* detail page, or None when its fetch failed.
ReleaseRecord(e, link, detail, found) ==
    [source |-> "SEC",
     action_type |-> ActionType(e),
     release_number |-> ReleaseNum(e, link.title, link.href),
     title |-> link.title,
     date |-> IF detail = None THEN None ELSE detail[1].date,
     url |-> urljoin(BASE_URL("SEC"), link.href),
     summary |-> IF detail = None THEN None ELSE detail[1].raw_text,
     violations |-> found,
     raw_text |-> IF detail = None THEN None ELSE detail[1].raw_text]

\* The release_number values that stand for "no number found" among records.
Sentinels(seen, number_found, release_number) ==
    IF number_found THEN seen ELSE seen \cup {release_number}

\* ------------------------------------------------------------ _scrape_release_detail
\* The <title> texts a release page of sec.gov may carry.
TitleTexts == { <<"SEC.gov | ", "LR", "-", "26001">>, <<"SEC.gov | ", "fraud">>, <<"No Title">> }

\* script.py lines 219-221: re.search(r'(LR|Release No\.)[-\s]*(\d+[-\d]*)',
\* title_text); group(2) or "Unknown".
script_release_number(title_text) ==
    LET i == FirstIndex(title_text, {"LR", "Release No."}, 1)
        j == IF i > 0 /\ i < Len(title_text) /\ title_text[i + 1] \in {"-", " "} THEN i + 2 ELSE i + 1
    IN  IF i > 0 /\ j <= Len(title_text) /\ title_text[j] \in Digits
        THEN <<title_text[j]>> ELSE <<"Unknown">>

\* script.py lines 223-233: the record _scrape_release_detail returns.
script_release_found(title_text) == script_release_number(title_text) # <<"Unknown">>

ScriptRecord(u, release_type, title_text) ==
    [source |-> "SEC",
     action_type |-> release_type,
     release_number |-> script_release_number(title_text),
     title |-> title_text,
     date |-> << <<"Date unknown">> >>,
     url |-> u,
     summary |-> << title_text >>,
     violations |-> <<>>,
     raw_text |-> << title_text >>]

\* ------------------------------------------------------------ the passes
\* A variant that goes round the loop again.
ListingContinues == "listing"

\* Where a pass stands after a listing page that failed to fetch or carried no
\* matching link (the break of lines 160, 171, 233, 240, 319, 326).
ListingBreaks == "done"

\* Where scrape_monthly_actions stands after a month whose fetch failed (the
\* continue of line 408).
PeriodContinues == "period"

\* SEC pass, lines 157-160: the listing page fails to fetch.
ListingFails ==
    /\ xpc = "listing"
    /\ listing_page < pass_limit
    /\ requested' = Append(requested, Request("listing", ListingUrl(extractor, listing_page), FALSE, 0))
    /\ xpc' = ListingBreaks
    /\ UNCHANGED <<extractor, pass_limit, filter_compliance, current_date, listing_page,
                   releases, yielded, sentinels, exceptPass>>

\* SEC pass, lines 157-171: the listing page is fetched and carries `links`.
FetchListing(links) ==
    /\ xpc = "listing"
    /\ listing_page < pass_limit
    /\ requested' = Append(requested, Request("listing", ListingUrl(extractor, listing_page),
                                              TRUE, Len(links)))
    /\ releases' = links
    /\ xpc' = IF links = <<>> THEN ListingBreaks ELSE "release"
    /\ UNCHANGED <<extractor, pass_limit, filter_compliance, current_date, listing_page,
                   yielded, sentinels, exceptPass>>

\* SEC pass: range(max_pages) is exhausted and the generator returns.
PassExhausted ==
    /\ xpc \in {"listing", "period"}
    /\ listing_page >= pass_limit
    /\ xpc' = "done"
    /\ UNCHANGED <<extractor, pass_limit, filter_compliance, current_date, listing_page,
                   releases, requested, yielded, sentinels, exceptPass>>

\* SEC pass, lines 175-176, 244-256, 330-333: the link is passed over.
ReleaseContinue ==
    /\ xpc = "release"
    /\ releases # <<>>
    /\ \/ NoHref(extractor, Head(releases).href)
       \/ TitleFiltered(extractor, filter_compliance, Head(releases).title)
    /\ releases' = Tail(releases)
    /\ UNCHANGED <<xpc, extractor, pass_limit, filter_compliance, current_date, listing_page,
                   requested, yielded, sentinels, exceptPass>>

\* SEC pass, lines 186-217, 259-304, 343-372: the detail page of the link is
\* asked for; `ok` tells whether fetch_page returned a page.
ScrapeRelease(ok) ==
    /\ xpc = "release"
    /\ releases # <<>>
    /\ LET link     == Head(releases)
           full_url == urljoin(BASE_URL("SEC"), link.href)
           detail   == IF ok THEN <<DetailPage(full_url)>> ELSE None
           raw_text == IF ok THEN detail[1].raw_text ELSE None
           number   == ReleaseNum(extractor, link.title, link.href)
       IN  /\ ~NoHref(extractor, link.href)
           /\ ~TitleFiltered(extractor, filter_compliance, link.title)
           /\ requested' = Append(requested, Request("detail", full_url, ok, 0))
           /\ IF TextFiltered(extractor, filter_compliance, raw_text)
              THEN UNCHANGED <<yielded, sentinels>>
              ELSE /\ \E found \in extract_violations(TextOrTitle(raw_text, link.title)) :
                          yielded' = Append(yielded, ReleaseRecord(extractor, link, detail, found))
                   /\ sentinels' = Sentinels(sentinels, number # None, number)
    /\ releases' = Tail(releases)
    /\ UNCHANGED <<xpc, extractor, pass_limit, filter_compliance, current_date, listing_page,
                   exceptPass>>

\* SEC pass, lines 219, 306, 374: the links of the page are done.
PageDone ==
    /\ xpc = "release"
    /\ releases = <<>>
    /\ listing_page' = listing_page + 1
    /\ xpc' = "listing"
    /\ UNCHANGED <<extractor, pass_limit, filter_compliance, current_date, releases,
                   requested, yielded, sentinels, exceptPass>>

\* scrape_monthly_actions, lines 399-408: the month's page fails to fetch.
PeriodFails ==
    /\ xpc = "period"
    /\ listing_page < pass_limit
    /\ LET target_date == TargetDate(current_date, listing_page)
       IN  requested' = Append(requested,
                               Request("period", MonthlyUrl(target_date.month, target_date.year),
                                       FALSE, 0))
    /\ listing_page' = listing_page + 1
    /\ xpc' = PeriodContinues
    /\ UNCHANGED <<extractor, pass_limit, filter_compliance, current_date, releases,
                   yielded, sentinels, exceptPass>>

\* scrape_monthly_actions, lines 399-454: the month's page is fetched.
ScrapePeriod(soup) ==
    /\ xpc = "period"
    /\ listing_page < pass_limit
    /\ LET target_date == TargetDate(current_date, listing_page)
           month       == target_date.month
           year        == target_date.year
           u           == MonthlyUrl(month, year)
       IN  /\ requested' = Append(requested, Request("period", u, TRUE, Len(soup.pdf_links)))
           /\ IF soup.content = None
              THEN yielded' = yielded \o PdfRecords(month, year, soup.pdf_links)
              ELSE \E found \in extract_violations(soup.content[1]) :
                       yielded' = (Append(yielded, MonthlySummary(month, year, u, soup.content[1], found))
                                   \o PdfRecords(month, year, soup.pdf_links))
    /\ listing_page' = listing_page + 1
    /\ UNCHANGED <<xpc, extractor, pass_limit, filter_compliance, current_date, releases,
                   sentinels, exceptPass>>

\* script.py lines 195-237: _scrape_release_detail fetches the page, or fails
\* and returns None.
ScrapeReleaseDetail(ok, title_text) ==
    /\ xpc = "release_detail"
    /\ LET u == urljoin(BASE_URL("SEC"), ReleaseLinks("litigation_releases")[2].href)
       IN  /\ requested' = Append(requested, Request("detail", u, ok, 0))
           /\ IF ok
              THEN /\ yielded' = Append(yielded, ScriptRecord(u, "litigation", title_text))
                   /\ sentinels' = Sentinels(sentinels, script_release_found(title_text),
                                             script_release_number(title_text))
              ELSE UNCHANGED <<yielded, sentinels>>
    /\ xpc' = "done"
    /\ UNCHANGED <<extractor, pass_limit, filter_compliance, current_date, listing_page,
                   releases, exceptPass>>

\* The position a pass of the extractor starts at.
PassStart(e) ==
    IF e \in SecExtractors THEN "listing"
    ELSE IF e = "monthly_actions" THEN "period"
    ELSE "release_detail"

\* A fresh scraper object on which one extractor is about to run.
PassInit ==
    /\ CrawlInit
    /\ NormIdle
    /\ ClassIdle
    /\ DedupIdle
    /\ RateIdle
    /\ extractor \in SecExtractors \cup {"monthly_actions", "release_detail"}
    /\ xpc = PassStart(extractor)
    /\ pass_limit \in IF extractor \in SecExtractors THEN 0..MaxListingPages
                      ELSE IF extractor = "monthly_actions" THEN 0..MaxMonths
                      ELSE {0}
    /\ filter_compliance \in IF extractor = "press_releases" THEN BOOLEAN ELSE {FALSE}
    /\ current_date \in IF extractor = "monthly_actions" THEN Dates
                        ELSE {[year |-> 0, month |-> 0, day |-> 0]}
    /\ listing_page = 0
    /\ releases = <<>>
    /\ requested = <<>>
    /\ yielded = <<>>
    /\ sentinels = {}

\* The caller goes on to another SEC extractor (scraper.py main, lines 694-712;
\* script.py scrape_enforcement_actions); the records of the pass before are
\* with the caller.
NextPass(e, n, f) ==
    /\ xpc = "done"
    /\ extractor # "monthly_actions"
    /\ extractor' = e
    /\ xpc' = PassStart(e)
    /\ pass_limit' = (IF e \in SecExtractors THEN n ELSE 0)
    /\ filter_compliance' = (e = "press_releases" /\ f)
    /\ listing_page' = 0
    /\ releases' = <<>>
    /\ requested' = <<>>
    /\ yielded' = <<>>
    /\ UNCHANGED <<current_date, sentinels, exceptPass>>

PassNext ==
    \/ ListingFails
    \/ \E links \in ListingPages(extractor) : FetchListing(links)
    \/ PassExhausted
    \/ ReleaseContinue
    \/ \E ok \in BOOLEAN : ScrapeRelease(ok)
    \/ PageDone
    \/ PeriodFails
    \/ \E soup \in PeriodPages : ScrapePeriod(soup)
    \/ \E ok \in BOOLEAN, title_text \in TitleTexts : ScrapeReleaseDetail(ok, title_text)
    \/ \E e \in SecExtractors \cup {"release_detail"}, n \in 0..MaxListingPages, f \in BOOLEAN :
           NextPass(e, n, f)

PassSpec == PassInit /\ [][PassNext]_vars

\* ================================================================ claims
\* The URLs whose GET was issued during the current crawl() call, in order.
RunFetched == SubSeq(fetched, run_mark + 1, Len(fetched))

UrlA == BaseUrl \o <<"/", "a">>

\* ---------------------------------------------------------------- C1
\* C1: no URL is fetched more than once: a URL is in the visited set from the
\* moment it is dequeued, before its fetch is issued, and a URL in the visited
\* set is never fetched again, whether its fetch succeeded or failed and however
\* often it was given or discovered.
C1_NoUrlFetchedTwice ==
    /\ \A i, j \in 1..Len(fetched) : fetched[i] = fetched[j] => i = j
    /\ \A i \in 1..Len(fetched) : fetched[i] \in visited_urls
    /\ pc = "fetch" =>
           /\ url \in visited_urls
           /\ \A i \in 1..Len(fetched) : fetched[i] # url

\* The start list names /a twice, its only fetch failed, and the run is over.
C1_Witness ==
    /\ pc = "done"
    /\ start_urls = <<UrlA, UrlA>>
    /\ fetched = <<UrlA>>
    /\ pages_crawled = 0
    /\ max_pages > 0

\* ---------------------------------------------------------------- C2
\* C2: crawl(start_urls, max_pages) performs at most max_pages completed fetch
\* attempts, failed ones counted as well as successful ones.
C2_AttemptsWithinBudget == Len(RunFetched) <= max_pages

\* ---------------------------------------------------------------- C3
\* C3: between iterations the page counter equals the number of fetch attempts
\* completed so far, failed ones included.
C3_CounterCountsAttempts ==
    pc \in {"loop", "done"} => pages_crawled = Len(RunFetched)

\* ---------------------------------------------------------------- C4
\* C4: the crawl loop eventually terminates, and when it has terminated the
\* pending queue is empty or the page counter has reached max_pages.
C4_Terminates ==
    /\ <>(pc = "done")
    /\ [](pc = "done" => (queue = <<>> \/ pages_crawled = max_pages))

\* The run ended on the page budget with URLs still pending.
C4_Witness ==
    /\ pc = "done"
    /\ queue # <<>>
    /\ pages_crawled = max_pages
    /\ max_pages >= 2

\* ---------------------------------------------------------------- C5
\* Link distance from the start URLs in the graph of the links found so far.
StartSet == {start_urls[i] : i \in 1..Len(start_urls)}

RECURSIVE Within(_)
Within(k) ==
    IF k = 0 THEN StartSet
    ELSE LET near == Within(k - 1)
         IN  near \cup {e[2] : e \in {x \in edges : x[1] \in near}}

Farthest == Cardinality(edges) + 1

Distance(u) ==
    IF u \notin Within(Farthest) THEN Farthest + 1
    ELSE CHOOSE k \in 0..Farthest : u \in Within(k) /\ (k = 0 \/ u \notin Within(k - 1))

IsPrefix(p, q) == Len(p) <= Len(q) /\ SubSeq(q, 1, Len(p)) = p

\* A step takes the front of the queue, or appends at its back, or (the call
\* itself) loads the start list.
FifoStep ==
    \/ queue' = queue
    \/ pc = "idle" /\ queue' = start_urls'
    \/ pc = "loop" /\ queue # <<>> /\ url' = Head(queue) /\ queue' = Tail(queue)
    \/ pc = "process" /\ IsPrefix(queue, queue')

DistanceNeverDecreases ==
    \A i, j \in 1..Len(RunFetched) :
        i < j => Distance(RunFetched[i]) <= Distance(RunFetched[j])

\* C5: the crawl is first-in first-out (URLs leave at the front of the queue,
\* links join at its back), and the link distance from the start URLs of the
\* successively fetched URLs never decreases.
C5_BreadthFirst == [][FifoStep]_vars /\ []DistanceNeverDecreases

\* Three URLs were fetched, at distances 0, 1 and 2.
C5_Witness ==
    /\ Len(RunFetched) = 3
    /\ Distance(RunFetched[1]) = 0
    /\ Distance(RunFetched[2]) = 1
    /\ Distance(RunFetched[3]) = 2

\* ---------------------------------------------------------------- C6
\* C6: every URL that is fetched satisfies the domain, extension and path
\* rules of should_crawl, the URLs given in start_urls included.
C6_FetchedInScope == \A i \in 1..Len(fetched) : ScopeRules(fetched[i])

\* ---------------------------------------------------------------- C7
\* Tokens whose last character is a dot.
DotEndTokens == {"investor.", ".."}

\* The host is a target domain or a subdomain of one.
HostIsTarget(netloc) ==
    /\ netloc # <<>>
    /\ netloc[Len(netloc)] \in TargetDomains
    /\ Len(netloc) > 1 => netloc[Len(netloc) - 1] \in DotEndTokens

\* C7: should_crawl admits a URL only if its host is a target domain or a
\* subdomain of one; a host that merely contains one as a substring is rejected.
C7_OnlyTargetHosts == (npc = "judged" /\ verdict1) => HostIsTarget(Netloc(norm1))

\* ---------------------------------------------------------------- C8
\* Every link of the page just scraped passes the crawl loop's own check
\* (line 246).
LinksPassSecondCheck ==
    (pc = "process" /\ page_data # None) =>
        \A i \in 1..Len(page_data[1].outbound_links) :
            Admits(page_data[1].outbound_links[i], visited_urls)

\* ... and they are all appended, in order, at the back of the queue.
LinksAllAppended ==
    (pc = "process" /\ page_data # None) =>
        queue' = queue \o page_data[1].outbound_links

\* C8: (as claimed) re-applying the filter never rejects: every link of
\* outbound_links passes the second check, and should_crawl still admits, at any
\* later point of the run, every link it admitted into an outbound_links list.
C8_FilterNeverRejectsLater ==
    /\ LinksPassSecondCheck
    /\ \A e \in edges : should_crawl(e[2], visited_urls)

\* C8: (amended) every link of outbound_links passes the second check and is
\* appended to the queue; should_crawl keeps admitting an admitted link for as
\* long as the link is not in the visited set, and rejects it from then on.
C8_FilterStableUntilVisited ==
    /\ []LinksPassSecondCheck
    /\ [][LinksAllAppended]_vars
    /\ [](\A e \in edges : should_crawl(e[2], visited_urls) <=> e[2] \notin visited_urls)

\* A discovered link has since been fetched, and another is still admitted.
C8_Witness ==
    /\ \E e \in edges : e[2] \in visited_urls /\ ~should_crawl(e[2], visited_urls)
    /\ \E e \in edges : e[2] \notin visited_urls /\ should_crawl(e[2], visited_urls)

\* ---------------------------------------------------------------- C9
\* C9: normalize_url(normalize_url(link)) = normalize_url(link), and
\* should_crawl gives the same verdict on both.
C9_NormalizeIdempotent ==
    /\ npc \in {"renormalized", "judged"} => norm2 = norm1
    /\ npc = "judged" => verdict1 = verdict2

\* A path-relative href with a fragment was normalised twice and admitted.
C9_Witness ==
    /\ npc = "judged"
    /\ raw = <<"a", "#", "a">>
    /\ norm1 = UrlA
    /\ norm2 = UrlA
    /\ verdict1

\* ---------------------------------------------------------------- C10
HasFragment(u) == \E i \in 1..Len(u) : u[i] = "#"

\* Scheme https and a host.
IsAbsolute(u) ==
    /\ Len(u) > 3
    /\ SubSeq(u, 1, 3) = <<"https:", "/", "/">>
    /\ Netloc(u) # <<>>

Untraversable(href) == href = <<>> \/ href[1] \in {"javascript:", "mailto:"}

TermsMentioned(keywords, t) ==
    {k \in Range(keywords) : KeywordIn(k, [i \in 1..Len(t) |-> LowerWord(t[i])])}

\* The classifier of scrap_st.py has run on (text, page_url).
Classified == cpc \in {"classified", "found", "base_classified", "extracted"}

\* C11: is_compliance_related(text, url) is true exactly when the URL contains
\* a taxonomy term or the body mentions at least 3 distinct taxonomy terms; in
\* particular, with no term in the URL, a body that consists of a single
\* compliance word is not relevant.
C11_ThresholdClassifier ==
    Classified =>
        /\ relevant <=> \/ UrlHasKeyword(page_url)
                        \/ Cardinality(TermsMentioned(COMPLIANCE_KEYWORDS, text)) >= 3
        /\ (~UrlHasKeyword(page_url) /\ Len(text) <= 1) => ~relevant

\* ---------------------------------------------------------------- C12
\* C12: no classifier accepts a text on the strength of fewer than 3 matched
\* taxonomy terms: neither the classifier of scrap_st.py (for a URL without a
\* term) nor BaseScraper.is_compliance_related.
C12_ThresholdKeptEverywhere ==
    /\ (Classified /\ relevant /\ ~UrlHasKeyword(page_url)) =>
           Cardinality(TermsMentioned(COMPLIANCE_KEYWORDS, text)) >= 3
    /\ (cpc \in {"base_classified", "extracted"} /\ base_relevant) =>
           Cardinality(TermsMentioned(BaseScraper_COMPLIANCE_KEYWORDS, text)) >= 3

\* ---------------------------------------------------------------- C13
NoDuplicates(s) == \A i, j \in 1..Len(s) : s[i] = s[j] => i = j

\* C13: a tag list never holds a taxonomy term twice and holds exactly the
\* taxonomy terms that occur in the lower-cased text; this is so for the
\* found_keywords list of scrape_page, whose length is the keyword count, and
\* for the list extract_violations returns.
C13_TagsExactNoDuplicates ==
    /\ cpc \in {"found", "base_classified", "extracted"} =>
           /\ NoDuplicates(found_keywords)
           /\ Range(found_keywords) = TermsMentioned(COMPLIANCE_KEYWORDS, text)
           /\ Len(found_keywords) = KeywordCount(text)
    /\ cpc = "extracted" =>
           /\ NoDuplicates(violations)
           /\ Range(violations) = TermsMentioned(BaseScraper_COMPLIANCE_KEYWORDS, text)

\* A capitalised word that holds three terms, and a term mentioned twice.
C13_Witness ==
    /\ cpc = "extracted"
    /\ text = <<"Cybersecurity", "fraud", "fraud">>
    /\ Len(found_keywords) = 4
    /\ Len(violations) = 2

\* ---------------------------------------------------------------- C14
\* The identity of a record: its source and its URL.
Identity(action) == <<action.source, action.url>>

\* Record k of all_actions is the first one produced with its identity.
FirstOfIdentity(k) ==
    \A j \in 1..(k - 1) : Identity(all_actions[j]) # Identity(all_actions[k])

\* The records of all_actions at the positions in K, in production order.
RECURSIVE Selected(_, _)
Selected(K, n) ==
    IF n = 0 THEN <<>>
    ELSE IF n \in K THEN Append(Selected(K, n - 1), all_actions[n])
    ELSE Selected(K, n - 1)

\* C14: the deduplication pass of main admits a record iff no earlier record
\* of the concatenated passes has the same (source, URL): after each iteration
\* unique_actions is, in production order, the first-produced record of every
\* identity seen so far, so the exported list has no two records of one
\* identity and loses no identity.
C14_DedupKeepsFirstOfEach ==
    dpc \in {"dedup", "exported"} =>
        /\ unique_actions = Selected({k \in 1..dk : FirstOfIdentity(k)}, dk)
        /\ \A i, j \in 1..Len(unique_actions) :
               Identity(unique_actions[i]) = Identity(unique_actions[j]) => i = j
        /\ {Identity(unique_actions[i]) : i \in 1..Len(unique_actions)}
               = {Identity(all_actions[k]) : k \in 1..dk}

\* Three links were read, the first and the third by different hrefs for one
\* URL of one source, and the export holds the first and the second record.
C14_Witness ==
    /\ dpc = "exported"
    /\ Len(all_actions) = 3
    /\ produced[1].href # produced[3].href
    /\ Identity(all_actions[1]) = Identity(all_actions[3])
    /\ unique_actions = <<all_actions[1], all_actions[2]>>

\* ---------------------------------------------------------------- C15
\* The URL without its fragment.
WithoutFragment(u) == SplitFirst(u, "#")

\* C15: two records of one source whose links differ only by a fragment have
\* one identity and collapse to a single exported record.
C15_FragmentsCollapse ==
    dpc = "exported" =>
        \A i, j \in 1..Len(unique_actions) :
            (/\ unique_actions[i].source = unique_actions[j].source
             /\ WithoutFragment(unique_actions[i].url) = WithoutFragment(unique_actions[j].url))
            => i = j

\* ---------------------------------------------------------------- C16
\* C16: a list saved by one of script.py's scrape methods never holds two
\* records with the same source and URL.
C16_SavedListsDeduplicated ==
    saved # None =>
        \A i, j \in 1..Len(saved[1]) :
            (/\ saved[1][i].source = saved[1][j].source
             /\ saved[1][i].url = saved[1][j].url)
            => i = j

\* ---------------------------------------------------------------- C17
\* C17: two consecutive wait() calls on one RateLimiter return at least
\* min_interval (1/r) apart; a call entered after elapsed time e < 1/r blocks
\* for 1/r - e or longer, a call entered after e >= 1/r does not block; and
\* wait() never fails (it never asks for a sleep that is not positive).
C17_WaitSpacing ==
    gate = "RateLimiter" =>
        /\ prev_return # None => last_return[1] - prev_return[1] >= min_interval
        /\ rpc = "returned" =>
               IF call_elapsed < min_interval
               THEN now - call_time >= min_interval - call_elapsed
               ELSE now = call_time
        /\ rpc = "sleeping" => wake_at - call_time > 0

\* A second wait() entered one tick after the first returned, with an interval
\* of more than one tick: it blocked for exactly the remaining interval.
C17_Witness ==
    /\ gate = "RateLimiter"
    /\ rpc = "returned"
    /\ prev_return # None
    /\ call_elapsed = 1
    /\ min_interval > 1
    /\ now - call_time = min_interval - call_elapsed
    /\ last_return[1] - prev_return[1] = min_interval

\* ---------------------------------------------------------------- C18
\* C18: every GET is gated: each GET of a scraper instance is issued when a
\* rate-limit wait of the instance has just completed, after the GET before
\* it, and two consecutive GETs of one instance are at least the instance's
\* minimum interval apart.
C18_RequestsGated ==
    /\ last_get # None =>
           /\ last_return # None
           /\ (rpc = "idle" => last_return[1] = last_get[1])
    /\ prev_get # None =>
           /\ prev_get[1] < last_return[1]
           /\ last_get[1] - prev_get[1] >= min_interval

\* A scraper that gates with time.sleep has issued two GETs, the second as
\* early as its delay allows.
C18_Witness ==
    /\ gate = "sleep"
    /\ rpc = "idle"
    /\ prev_get # None
    /\ min_interval > 1
    /\ last_get[1] - prev_get[1] = min_interval

\* ---------------------------------------------------------------- C19
\* The fetch of the URL at hand has failed and the loop has the result.
FetchFailed == pc = "process" /\ page_data = None

\* C19: a failing fetch never aborts the crawl.  Every call of scrape_page
\* returns to the loop; after a failed fetch the loop goes on with the queue as
\* it was; a URL leaves the queue only by being dequeued at its front; and the
\* run that had a failed fetch still comes to its regular end, where the queue
\* is empty or the page budget is used up.
C19_FailureDoesNotAbort ==
    /\ [][pc = "fetch" => pc' = "process"]_vars
    /\ [][FetchFailed => (pc' = "loop" /\ queue' = queue)]_vars
    /\ [][(pc # "idle" /\ queue' # queue) =>
              \/ queue # <<>> /\ url' = Head(queue) /\ queue' = Tail(queue)
              \/ IsPrefix(queue, queue')]_vars
    /\ FetchFailed ~> (pc = "done" /\ (queue = <<>> \/ pages_crawled >= max_pages))

\* The fetch of /a failed with https://other.com/c pending, and the run went
\* on to fetch that URL and ended with an empty queue.
C19_Witness ==
    /\ pc = "done"
    /\ start_urls = <<UrlA, <<"https:", "/", "/", "other.com", "/", "c">>>>
    /\ fetched = <<UrlA, <<"https:", "/", "/", "other.com", "/", "c">>>>
    /\ pages_crawled = 1
    /\ compliance_urls = <<>>
    /\ queue = <<>>

\* ---------------------------------------------------------------- C20
\* A crawl() call has just been entered.
CallEntered == pc = "loop" /\ url = None

\* C20: the crawl keeps no state across calls.  Every crawl() call starts with
\* an empty visited set and an empty record list; a call with a start URL and a
\* page budget fetches its first start URL, the second call as the first did;
\* and the records a call returns are records of pages fetched in that call.
C20_NoStateAcrossCalls ==
    /\ CallEntered => (visited_urls = {} /\ compliance_urls = <<>>)
    /\ (pc = "done" /\ max_pages > 0 /\ start_urls # <<>>) =>
           (RunFetched # <<>> /\ RunFetched[1] = start_urls[1])
    /\ pc = "done" =>
           \A i \in 1..Len(compliance_urls) : compliance_urls[i].url \in Range(RunFetched)

\* ---------------------------------------------------------------- C21
\* The URL at hand was fetched, but lines 236-247 have not yet run for it.
InHand == IF pc = "process" THEN 1 ELSE 0

\* The URLs among fetched[1..n] whose fetch returned a page that the
\* classifier marks relevant, in fetch order.
RECURSIVE RelevantFetched(_)
RelevantFetched(n) ==
    IF n = 0 THEN <<>>
    ELSE IF outcomes[n] /\ is_compliance_related(BodyKeywordCount(fetched[n]), fetched[n])
         THEN Append(RelevantFetched(n - 1), fetched[n])
         ELSE RelevantFetched(n - 1)

\* C21: a fetched page becomes a record iff the classifier marks it relevant:
\* the record list holds, in fetch order, exactly the successfully fetched
\* pages for which is_compliance_related was true, and no page that failed to
\* fetch or was classified irrelevant.
C21_RecordsAreRelevantPages ==
    /\ [i \in 1..Len(compliance_urls) |-> compliance_urls[i].url]
           = RelevantFetched(Len(fetched) - InHand)
    /\ \A i \in 1..Len(compliance_urls) : compliance_urls[i].is_compliance_related

\* https://other.com/c was fetched and is irrelevant, the fetch of /a failed,
\* /privacy was fetched and is the one record.
C21_Witness ==
    /\ pc = "done"
    /\ outcomes = <<TRUE, FALSE, TRUE>>
    /\ fetched[1] = <<"https:", "/", "/", "other.com", "/", "c">>
    /\ fetched[2] = UrlA
    /\ Len(compliance_urls) = 1
    /\ compliance_urls[1].url = fetched[3]

\* ---------------------------------------------------------------- C22
\* C22: the visited set covers the scheduled URLs as well as the dequeued
\* ones, and no URL is in the pending queue more than once.
C22_QueueHoldsEachUrlOnce ==
    pc # "idle" =>
        /\ \A i \in 1..Len(queue) : queue[i] \in visited_urls
        /\ NoDuplicates(queue)

\* ---------------------------------------------------------------- C23
\* The URL is in scope: its host is a target domain or a subdomain of one,
\* and no extension or path rule excludes it.
InScope(u) ==
    /\ HostIsTarget(Netloc(u))
    /\ ~HasSkipExtension(u)
    /\ ~HasSkipPattern(u)

\* The run was not cut short by the page budget, and it began in scope.
RanToTheEnd ==
    /\ pc = "done"
    /\ queue = <<>>
    /\ max_pages > 0
    /\ \A u \in StartSet : InScope(u)

\* The links found on the fetched pages lead from the start URLs exactly to
\* the URLs that were fetched.
FetchedAreTheReachable == {RunFetched[i] : i \in 1..Len(RunFetched)} = Within(Farthest)

\* C23: when the budget does not cut the run short and the start URLs are in
\* scope, the URLs fetched are exactly the in-scope URLs reachable from the
\* start URLs through links on fetched pages, and no out-of-scope URL is
\* fetched.
C23_FetchedAreReachableInScope ==
    RanToTheEnd =>
        /\ FetchedAreTheReachable
        /\ \A i \in 1..Len(RunFetched) : InScope(RunFetched[i])

\* ---------------------------------------------------------------- C24
\* The first day of the i-th calendar month before the month of now_date.
RECURSIVE TargetMonth(_, _)
TargetMonth(now_date, i) ==
    IF i = 0 THEN [now_date EXCEPT !.day = 1]
    ELSE LET d == TargetMonth(now_date, i - 1)
         IN  IF d.month > 1 THEN [d EXCEPT !.month = d.month - 1]
             ELSE [year |-> d.year - 1, month |-> 12, day |-> 1]

\* The URL of the i-th calendar month before the current one.
TrailingUrl(i) ==
    MonthlyUrl(TargetMonth(current_date, i).month, TargetMonth(current_date, i).year)

\* The summary records among the records yielded so far.
SummaryRecords ==
    {k \in 1..Len(yielded) : yielded[k].action_type = "monthly_disciplinary_summary"}

\* Each fetched period has yielded at most one summary record.
OneSummaryPerPeriod ==
    Cardinality(SummaryRecords) <= Cardinality({k \in 1..Len(requested) : requested[k].ok})

\* C24: scrape_monthly_actions(months_back=N) requests the N trailing calendar
\* months ending with the current one, each once: the period URLs it builds are
\* pairwise distinct and consecutive, and each fetched period yields at most
\* one summary record.
C24_TrailingCalendarMonths ==
    extractor = "monthly_actions" =>
        /\ \A k \in 1..Len(requested) : requested[k].url = TrailingUrl(k - 1)
        /\ \A j, k \in 1..Len(requested) : requested[j].url = requested[k].url => j = k
        /\ (xpc = "done" => Len(requested) = pass_limit)
        /\ OneSummaryPerPeriod

\* ---------------------------------------------------------------- C25
\* C25: one sentinel stands for a release number that could not be parsed:
\* all SEC records of the repository's extractors whose number is absent carry
\* the same release_number value.
C25_OneSentinel == Cardinality(sentinels) <= 1

\* ---------------------------------------------------------------- C29
\* The listing-page requests of the pass so far, in order.
ListingRequests == SelectSeq(requested, LAMBDA r : r.kind = "listing")

\* The listing page came back with at least one matching link.
HadLinks(r) == r.ok /\ r.links > 0

\* C29: an SEC pass requests the listing pages 0, 1, ... in order, at most
\* max_pages of them, and ends at the first one that fails to fetch or has no
\* matching link, with no request after it; scrape_monthly_actions requests
\* one period per iteration and, whatever fetches failed, has requested
\* months_back periods when it ends.
C29_ListingFailures ==
    /\ extractor \in SecExtractors =>
           /\ Len(ListingRequests) <= pass_limit
           /\ \A j \in 1..Len(ListingRequests) :
                  /\ ListingRequests[j].url = ListingUrl(extractor, j - 1)
                  /\ j < Len(ListingRequests) => HadLinks(ListingRequests[j])
           /\ \A k \in 1..Len(requested) :
                  (requested[k].kind = "listing" /\ ~HadLinks(requested[k]))
                      => (k = Len(requested) /\ xpc = "done")
           /\ xpc = "done" =>
                  \/ Len(ListingRequests) = pass_limit
                  \/ ~HadLinks(ListingRequests[Len(ListingRequests)])
    /\ extractor = "monthly_actions" =>
           /\ Len(requested) = listing_page
           /\ \A k \in 1..Len(requested) :
                  /\ requested[k].kind = "period"
                  /\ requested[k].url = MonthlyUrl(TargetDate(current_date, k - 1).month,
                                                   TargetDate(current_date, k - 1).year)
           /\ xpc = "done" => Len(requested) = pass_limit

\* An SEC pass with two pages allowed has ended after its first listing page
\* failed to fetch.
C29_Witness ==
    /\ extractor = "litigation_releases"
    /\ xpc = "done"
    /\ pass_limit = 2
    /\ Len(requested) = 1
    /\ requested[1].kind = "listing"
    /\ ~requested[1].ok

\* A monthly pass has ended having requested three periods, the first of
\* which failed to fetch.
C29_MonthlySkips ==
    /\ extractor = "monthly_actions"
    /\ xpc = "done"
    /\ pass_limit = 3
    /\ Len(requested) = 3
    /\ ~requested[1].ok
    /\ requested[3].ok

\* ---------------------------------------------------------------- C30
\* What a step has appended to a list.
Added(before, after) == SubSeq(after, Len(before) + 1, Len(after))

\* The text was obtained from the detail page.
HasText(raw_text) == raw_text # None /\ raw_text[1] # <<>>

\* C30: handling a listing link issues one detail fetch for the link's URL and
\* yields one record for it, also when the fetch fails (the record then has no
\* summary, date or raw text and is tagged by its title); under
\* filter_compliance, scrape_press_releases issues no fetch and yields nothing
\* for a title that is not compliance-related, and yields a record only if the
\* detail text, when there is one, is compliance-related as well.
C30_OneFetchOneRecordPerLink ==
    [][ (xpc = "release" /\ releases # <<>> /\ releases' = Tail(releases)) =>
          LET link     == Head(releases)
              full_url == urljoin(BASE_URL("SEC"), link.href)
              fetches  == Added(requested, requested')
              records  == Added(yielded, yielded')
              filtered == extractor = "press_releases" /\ filter_compliance
          IN  /\ IsPrefix(requested, requested')
              /\ IsPrefix(yielded, yielded')
              /\ IF filtered /\ ~BaseScraper_is_compliance_related(link.title)
                 THEN fetches = <<>> /\ records = <<>>
                 ELSE /\ Len(fetches) = 1
                      /\ fetches[1].kind = "detail"
                      /\ fetches[1].url = full_url
                      /\ Len(records) <= 1
                      /\ ~filtered => Len(records) = 1
                      /\ ~fetches[1].ok => Len(records) = 1
                      /\ \A k \in 1..Len(records) :
                             /\ records[k].title = link.title
                             /\ records[k].url = full_url
                             /\ ~fetches[1].ok =>
                                    /\ records[k].summary = None
                                    /\ records[k].date = None
                                    /\ records[k].raw_text = None
                                    /\ records[k].violations \in extract_violations(link.title)
                             /\ (filtered /\ HasText(records[k].raw_text)) =>
                                    BaseScraper_is_compliance_related(records[k].raw_text[1])
    ]_vars

\* A filtered press-release pass has ended: the first link's detail text was
\* not compliance-related and gave no record, the second link's detail fetch
\* failed and gave a record tagged by its title.
C30_Witness ==
    /\ extractor = "press_releases"
    /\ filter_compliance
    /\ xpc = "done"
    /\ Len(requested) = 3
    /\ requested[2].kind = "detail" /\ requested[2].ok
    /\ requested[3].kind = "detail" /\ ~requested[3].ok
    /\ Len(yielded) = 1
    /\ yielded[1].url = requested[3].url
    /\ yielded[1].raw_text = None
    /\ yielded[1].violations = << <<"fraud">> >>

\* ---------------------------------------------------------------- C26
\* The exported list is the record list rearranged by `order`.
Rearranged(exported, records, order) ==
    /\ Len(exported) = Len(records)
    /\ \A i \in 1..Len(exported) : exported[i] = records[order[i]]

\* Records of equal keyword_count stand in `order` as they were discovered.
KeepsDiscoveryOrder(records, order) ==
    \A i, j \in 1..Len(records) :
        (i < j /\ records[order[i]].keyword_count = records[order[j]].keyword_count)
            => order[i] < order[j]

\* C26: the page list save_results exports is a permutation of the record
\* list, in non-increasing keyword_count, with records of equal keyword_count
\* in their discovery order, and the URL list has one line per exported
\* record, in the same order.
C26_StableCompleteExport ==
    saved_pages # None =>
        LET exported == saved_pages[1]
        IN  /\ \E order \in Orders(1..Len(compliance_urls)) :
                   /\ Rearranged(exported, compliance_urls, order)
                   /\ KeepsDiscoveryOrder(compliance_urls, order)
            /\ \A i, j \in 1..Len(exported) :
                   i < j => exported[i].keyword_count >= exported[j].keyword_count
            /\ saved_urls # None
            /\ Len(saved_urls[1]) = Len(exported)
            /\ \A i \in 1..Len(exported) : saved_urls[1][i] = exported[i].url

\* Three records were exported: the second one discovered has the lowest
\* count and went last, the two of equal count kept their order.
C26_Witness ==
    /\ saved_pages # None
    /\ Len(compliance_urls) = 3
    /\ compliance_urls[1].keyword_count = 3
    /\ compliance_urls[2].keyword_count = 2
    /\ compliance_urls[3].keyword_count = 3
    /\ saved_pages[1] = <<compliance_urls[1], compliance_urls[3], compliance_urls[2]>>
    /\ Len(saved_urls[1]) = 3

\* ---------------------------------------------------------------- C27
\* The queue, the record list and the page counter stay as they are and the
\* URL at hand is in the visited set, to which nothing is added.
OnlyVisitedKeepsTheUrl ==
    /\ url \in visited_urls'
    /\ visited_urls' = visited_urls
    /\ queue' = queue
    /\ compliance_urls' = compliance_urls
    /\ pages_crawled' = pages_crawled

\* C27: a failed fetch changes nothing but the visited set.  The URL at hand
\* is in the visited set while it is fetched and handled, and both the step in
\* which scrape_page fails and the step in which the loop handles the failure
\* leave the queue (whose head was removed at dequeue time), the record list
\* and the page counter unchanged and the URL in the visited set, so that no
\* link is enqueued for the failed page.
C27_FailedFetchTouchesNothing ==
    /\ [](pc \in {"fetch", "process"} => url \in visited_urls)
    /\ [][(pc = "fetch" /\ page_data' = None) => OnlyVisitedKeepsTheUrl]_vars
    /\ [][FetchFailed => (pc' = "loop" /\ OnlyVisitedKeepsTheUrl)]_vars

\* The first start URL failed to fetch and the loop has handled the failure:
\* the URL is visited, the other start URL is still pending, nothing is
\* counted or recorded.
C27_Witness ==
    /\ pc = "loop"
    /\ outcomes = <<FALSE>>
    /\ fetched = <<UrlA>>
    /\ UrlA \in visited_urls
    /\ queue = << <<"https:", "/", "/", "other.com", "/", "c">> >>
    /\ pages_crawled = 0
    /\ compliance_urls = <<>>

\* ---------------------------------------------------------------- C28
\* The number of fetches so far that returned a page.
Successes == Cardinality({i \in 1..Len(outcomes) : outcomes[i]})

\* A fetched page is in the loop's hand and has not been counted yet.
PageInHand == IF pc = "process" /\ page_data # None THEN 1 ELSE 0

\* C28: during a crawl() on a fresh object the page counter never exceeds
\* max_pages and is the number of successful fetches the loop has handled,
\* there are at most as many records as counted pages, every record's URL is
\* in the visited set, no two records have the same URL, and with
\* max_pages = 0 no fetch is issued.
C28_CounterAndRecords ==
    /\ pages_crawled <= max_pages
    /\ pages_crawled = Successes - PageInHand
    /\ Len(compliance_urls) <= pages_crawled
    /\ \A i \in 1..Len(compliance_urls) : compliance_urls[i].url \in visited_urls
    /\ \A i, j \in 1..Len(compliance_urls) :
           compliance_urls[i].url = compliance_urls[j].url => i = j
    /\ max_pages = 0 => fetched = <<>>

\* A crawl with a budget of two pages has ended on its budget with a URL
\* still pending, after two successful fetches and a failed one; one page was
\* recorded.
C28_Witness ==
    /\ pc = "done"
    /\ max_pages = 2
    /\ pages_crawled = 2
    /\ Successes = 2
    /\ Len(fetched) = 3
    /\ Len(compliance_urls) = 1
    /\ queue # <<>>

====
